---- MODULE Spec2Model ----
(***************************************************************************)
(* The Estate Deli WhatsApp bot (app.py): the webhook handler, the         *)
(* in-memory conversation states with their expiry, the booking and cake   *)
(* flows, the intent dispatch, the review capture and the JSON record      *)
(* files.                                                                  *)
(*                                                                         *)
(* Texts are sequences of one-character strings, so that strip, lower,     *)
(* title, substring search, int() and the \d+ search are computed as the   *)
(* Python code computes them.  Times are whole seconds on the local clock. *)
(***************************************************************************)
EXTENDS Integers, Sequences, FiniteSets, TLC

VARIABLES
    now,         \* datetime.now(): seconds on the process's clock
    user_state,  \* the dict user_state: sender |-> state dict
    bookings,    \* bookings.json, the list it holds
    cakes,       \* cakes.json
    reviews,     \* reviews.json
    logs,        \* conversations.json
    turn,        \* the request handled last: its input, what was sent, the response
    threads      \* the requests in the handler, one per serving thread

vars == <<now, user_state, bookings, cakes, reviews, logs, turn, threads>>

----------------------------------------------------------------------------
(* Characters and the str methods the handler uses *)

UPPER == <<"A", "B", "C", "D", "E", "F", "G", "H", "I", "J", "K", "L", "M", "N", "O", "P", "Q", "R", "S", "T", "U", "V", "W", "X", "Y", "Z">>
LOWER == <<"a", "b", "c", "d", "e", "f", "g", "h", "i", "j", "k", "l", "m", "n", "o", "p", "q", "r", "s", "t", "u", "v", "w", "x", "y", "z">>
DIGITS == <<"0", "1", "2", "3", "4", "5", "6", "7", "8", "9">>

Range(f) == { f[i] : i \in DOMAIN f }

IndexIn(c, table) == CHOOSE i \in DOMAIN table : table[i] = c

UpperSet == Range(UPPER)
LowerSet == Range(LOWER)
DigitSet == Range(DIGITS)

\* the tables of str.lower(), str.upper() and int() on one character
LowerTable == [c \in UpperSet |-> LOWER[IndexIn(c, UPPER)]]
UpperTable == [c \in LowerSet |-> UPPER[IndexIn(c, LOWER)]]
DigitTable == [c \in DigitSet |-> IndexIn(c, DIGITS) - 1]

IsUpperChar(c) == c \in UpperSet
IsLowerChar(c) == c \in LowerSet
IsAlphaChar(c) == IsUpperChar(c) \/ IsLowerChar(c)
IsDigitChar(c) == c \in DigitSet
IsSpaceChar(c) == c = " "

LowerChar(c) == IF IsUpperChar(c) THEN LowerTable[c] ELSE c
UpperChar(c) == IF IsLowerChar(c) THEN UpperTable[c] ELSE c
DigitValue(c) == DigitTable[c]

\* str.lower()
Lower(text) == [i \in DOMAIN text |-> LowerChar(text[i])]

\* str.title(): a letter that follows a non-letter is upper-cased, any other
\* letter is lower-cased
Title(text) ==
    [i \in DOMAIN text |->
        IF i = 1 \/ ~IsAlphaChar(text[i - 1])
        THEN UpperChar(text[i])
        ELSE LowerChar(text[i])]

\* str.strip()
Strip(text) ==
    LET keep == { i \in DOMAIN text : ~IsSpaceChar(text[i]) }
    IN  IF keep = {} THEN <<>>
        ELSE LET lo == CHOOSE i \in keep : \A j \in keep : i <= j
                 hi == CHOOSE i \in keep : \A j \in keep : j <= i
             IN  SubSeq(text, lo, hi)

\* the positions at which `needle` occurs in `text`
Occurrences(needle, text) ==
    { i \in 1..(Len(text) - Len(needle) + 1) :
        SubSeq(text, i, i + Len(needle) - 1) = needle }

\* needle in text
Contains(needle, text) == Occurrences(needle, text) # {}

\* text.startswith(prefix)
StartsWith(text, prefix) ==
    Len(prefix) <= Len(text) /\ SubSeq(text, 1, Len(prefix)) = prefix

Min(S) == CHOOSE x \in S : \A y \in S : x <= y

\* text.split(sep): the pieces between the non-overlapping occurrences of sep,
\* found left to right
RECURSIVE SplitFrom(_, _, _)
SplitFrom(text, sep, start) ==
    LET occ == { i \in Occurrences(sep, text) : i >= start }
    IN  IF occ = {} THEN << SubSeq(text, start, Len(text)) >>
        ELSE LET i == Min(occ)
             IN  << SubSeq(text, start, i - 1) >> \o SplitFrom(text, sep, i + Len(sep))

Split(text, sep) == SplitFrom(text, sep, 1)

\* text.split(): the whitespace-delimited tokens
RECURSIVE Tokens(_)
Tokens(text) ==
    LET t == Strip(text)
    IN  IF t = <<>> THEN <<>>
        ELSE LET sp == { i \in DOMAIN t : IsSpaceChar(t[i]) }
             IN  IF sp = {} THEN << t >>
                 ELSE << SubSeq(t, 1, Min(sp) - 1) >>
                          \o Tokens(SubSeq(t, Min(sp) + 1, Len(t)))

\* the value of a run of decimal digits
RECURSIVE DecimalValue(_)
DecimalValue(ds) ==
    IF ds = <<>> THEN 0
    ELSE 10 * DecimalValue(SubSeq(ds, 1, Len(ds) - 1)) + DigitValue(ds[Len(ds)])

AllDigits(text) == text # <<>> /\ \A i \in DOMAIN text : IsDigitChar(text[i])

\* whether int(text) succeeds: optional sign, then digits, blanks around ignored
IntParses(text) ==
    LET t == Strip(text)
    IN  /\ t # <<>>
        /\ IF t[1] \in {"+", "-"} THEN AllDigits(Tail(t)) ELSE AllDigits(t)

\* int(text), where it succeeds
IntValue(text) ==
    LET t == Strip(text)
    IN  IF t[1] = "-" THEN 0 - DecimalValue(Tail(t))
        ELSE IF t[1] = "+" THEN DecimalValue(Tail(t))
        ELSE DecimalValue(t)

----------------------------------------------------------------------------
(* Configuration *)

\* OWNER_NUMBER of a deployment that has an owner: the notifications of
\* lines 572, 647, 686 and 693 are sent only when it is not empty
OWNER_NUMBER == <<"9", "0", "0", "0", "9">>

TABLES == 6
SEATS_PER_TABLE == 4
TOTAL_SEATS == TABLES * SEATS_PER_TABLE

USER_STATE_TIMEOUT == 300

\* timedelta.seconds is the seconds field of the normalised (days, seconds)
\* pair, 0 <= seconds < 86400
SECONDS_PER_DAY == 86400

CAKE_FLAVOURS ==
    << <<"C", "h", "o", "c", "o", "l", "a", "t", "e">>,
       <<"V", "a", "n", "i", "l", "l", "a">>,
       <<"S", "t", "r", "a", "w", "b", "e", "r", "r", "y">>,
       <<"R", "e", "d", " ", "V", "e", "l", "v", "e", "t">>,
       <<"B", "l", "a", "c", "k", " ", "F", "o", "r", "e", "s", "t">>,
       <<"B", "u", "t", "t", "e", "r", "s", "c", "o", "t", "c", "h">>,
       <<"P", "i", "n", "e", "a", "p", "p", "l", "e">>,
       <<"M", "a", "n", "g", "o">>,
       <<"C", "o", "f", "f", "e", "e">>,
       <<"C", "a", "r", "a", "m", "e", "l">>,
       <<"L", "e", "m", "o", "n">>,
       <<"F", "r", "u", "i", "t", " ", "C", "a", "k", "e">>,
       <<"T", "r", "u", "f", "f", "l", "e">>,
       <<"O", "r", "e", "o">>,
       <<"C", "h", "e", "e", "s", "e", "c", "a", "k", "e">> >>

MENU_DATA ==
    { <<"c", "o", "f", "f", "e", "e">>,
      <<"m", "a", "t", "c", "h", "a">>,
      <<"s", "i", "g", "n", "a", "t", "u", "r", "e", " ", "h", "o", "t", " ", "b", "e", "v", "e", "r", "a", "g", "e", "s">>,
      <<"s", "i", "g", "n", "a", "t", "u", "r", "e", " ", "i", "c", "e", "d", " ", "b", "e", "v", "e", "r", "a", "g", "e", "s">>,
      <<"m", "o", "c", "k", "t", "a", "i", "l", "s">>,
      <<"s", "n", "a", "c", "k", "s">>,
      <<"d", "e", "s", "s", "e", "r", "t", "s">> }

BOOKING_KEYWORDS ==
    { <<"b", "o", "o", "k">>,
      <<"r", "e", "s", "e", "r", "v", "e">>,
      <<"r", "e", "s", "e", "r", "v", "a", "t", "i", "o", "n">>,
      <<"t", "a", "b", "l", "e">>,
      <<"s", "e", "a", "t">>,
      <<"b", "o", "o", "k", "i", "n", "g">>,
      <<"b", "o", "o", "k", " ", "t", "a", "b", "l", "e">>,
      <<"r", "e", "s", "e", "r", "v", "e", " ", "t", "a", "b", "l", "e">>,
      <<"t", "a", "b", "l", "e", " ", "b", "o", "o", "k", "i", "n", "g">>,
      <<"m", "a", "k", "e", " ", "r", "e", "s", "e", "r", "v", "a", "t", "i", "o", "n">>,
      <<"w", "a", "n", "t", " ", "t", "o", " ", "b", "o", "o", "k">>,
      <<"n", "e", "e", "d", " ", "t", "a", "b", "l", "e">>,
      <<"t", "a", "b", "l", "e", " ", "f", "o", "r">> }

CAKE_KEYWORDS ==
    { <<"c", "a", "k", "e">>,
      <<"o", "r", "d", "e", "r", " ", "c", "a", "k", "e">>,
      <<"c", "a", "k", "e", " ", "o", "r", "d", "e", "r">>,
      <<"w", "a", "n", "t", " ", "c", "a", "k", "e">>,
      <<"n", "e", "e", "d", " ", "c", "a", "k", "e">>,
      <<"b", "i", "r", "t", "h", "d", "a", "y", " ", "c", "a", "k", "e">>,
      <<"c", "u", "s", "t", "o", "m", " ", "c", "a", "k", "e">>,
      <<"c", "a", "k", "e", " ", "d", "e", "l", "i", "v", "e", "r", "y">>,
      <<"o", "r", "d", "e", "r", " ", "a", " ", "c", "a", "k", "e">> }

REVIEW_KEYWORDS ==
    { <<"r", "e", "v", "i", "e", "w">>,
      <<"f", "e", "e", "d", "b", "a", "c", "k">>,
      <<"r", "a", "t", "i", "n", "g">>,
      <<"c", "o", "m", "m", "e", "n", "t">>,
      <<"e", "x", "p", "e", "r", "i", "e", "n", "c", "e">>,
      <<"s", "e", "r", "v", "i", "c", "e">>,
      <<"f", "o", "o", "d", " ", "w", "a", "s">>,
      <<"p", "l", "a", "c", "e", " ", "i", "s">>,
      <<"r", "e", "c", "o", "m", "m", "e", "n", "d">>,
      <<"l", "o", "v", "e", "d">>,
      <<"g", "r", "e", "a", "t">>,
      <<"e", "x", "c", "e", "l", "l", "e", "n", "t">>,
      <<"g", "o", "o", "d">>,
      <<"b", "a", "d">>,
      <<"p", "o", "o", "r">> }

NO_CUSTOM_TOKENS ==
    { <<"n", "o">>,
      <<"n", "o", "n", "e">>,
      <<"n", "o", "t", "h", "i", "n", "g">>,
      <<"n", "o", "p", "e">>,
      <<"n", "a">> }

\* the greetings without "hey"
GREETINGS_without_hey ==
    { <<"h", "i">>,
      <<"h", "e", "l", "l", "o">>,
      <<"s", "t", "a", "r", "t">>,
      <<"m", "e", "n", "u">>,
      <<"1">> }

GREETINGS ==
    { <<"h", "i">>,
      <<"h", "e", "l", "l", "o">>,
      <<"h", "e", "y">>,
      <<"s", "t", "a", "r", "t">>,
      <<"m", "e", "n", "u">>,
      <<"1">> }

HOURS_COMMANDS ==
    { <<"4">>,
      <<"h", "o", "u", "r", "s">>,
      <<"t", "i", "m", "i", "n", "g">>,
      <<"t", "i", "m", "e">>,
      <<"o", "p", "e", "n">>,
      <<"o", "p", "e", "n", "i", "n", "g", " ", "h", "o", "u", "r", "s">> }

LOCATION_COMMANDS ==
    { <<"5">>,
      <<"l", "o", "c", "a", "t", "i", "o", "n">>,
      <<"a", "d", "d", "r", "e", "s", "s">>,
      <<"w", "h", "e", "r", "e">> }

CANCEL_COMMANDS ==
    { <<"c", "a", "n", "c", "e", "l">>,
      <<"r", "e", "s", "e", "t">>,
      <<"s", "t", "o", "p">>,
      <<"e", "x", "i", "t">> }

FOOD_WORDS ==
    { <<"e", "a", "t">>,
      <<"f", "o", "o", "d">>,
      <<"h", "u", "n", "g", "r", "y">>,
      <<"d", "r", "i", "n", "k">>,
      <<"c", "o", "f", "f", "e", "e">>,
      <<"t", "e", "a">> }

PARTY_WORDS ==
    { <<"b", "i", "r", "t", "h", "d", "a", "y">>,
      <<"c", "e", "l", "e", "b", "r", "a", "t", "i", "o", "n">>,
      <<"p", "a", "r", "t", "y">> }

VISIT_WORDS ==
    { <<"v", "i", "s", "i", "t">>,
      <<"c", "o", "m", "e">>,
      <<"d", "i", "n", "e">>,
      <<"s", "i", "t">> }

HOURS_WORDS ==
    { <<"t", "i", "m", "e">>,
      <<"o", "p", "e", "n">>,
      <<"c", "l", "o", "s", "e">>,
      <<"h", "o", "u", "r", "s">> }

WHERE_WORDS ==
    { <<"w", "h", "e", "r", "e">>,
      <<"l", "o", "c", "a", "t", "i", "o", "n">>,
      <<"a", "d", "d", "r", "e", "s", "s">>,
      <<"d", "i", "r", "e", "c", "t", "i", "o", "n", "s">> }

REVIEW_MARKER == <<"r", "e", "v", "i", "e", "w", ":">>
RATING_MARKER == <<"r", "a", "t", "i", "n", "g", ":">>
NO_CUSTOM_MESSAGE == <<"N", "o", " ", "c", "u", "s", "t", "o", "m", " ", "m", "e", "s", "s", "a", "g", "e">>
REPORT_PREFIX == <<"r", "e", "p", "o", "r", "t">>
REVIEWS_PREFIX == <<"r", "e", "v", "i", "e", "w", "s">>
TODAY_WORD == <<"t", "o", "d", "a", "y">>
WHATSAPP_PREFIX == <<"w", "h", "a", "t", "s", "a", "p", "p", ":">>

\* the numbered lines of the welcome message, 1 to 6
MAIN_MENU_OPTIONS ==
    << "View Menu", "Order Cake", "Book Table", "Opening Hours", "Location",
       "Leave Review" >>

----------------------------------------------------------------------------
(* Record files and the conversation log *)

\* What a request meets outside the handler: the recipients Twilio takes no
\* message for, which of the handler's load_data and save_data calls fail, and
\* whether conversations.json holds a JSON value that is not an array.
CALLS == { "avail_read", "append_read", "append_write",
           "log_read", "log_write", "report_read" }

WORKING == [unreachable |-> {}, failing |-> {}, log_is_list |-> TRUE]

\* load_data: the list in the file, or [] when the read fails
load_data(e, call, file) == IF call \in e.failing THEN <<>> ELSE file

\* save_data: the file holds `data`, or what it held when the write fails
save_data(e, call, file, data) == IF call \in e.failing THEN file ELSE data

\* load_data, append and save_data, skipped when a message cannot be sent
Appended_when_reachable(e, file, record) ==
    IF e.unreachable # {} THEN file
    ELSE save_data(e, "append_write", file,
                   Append(load_data(e, "append_read", file), record))

\* save_data of the new record alone, without the load_data
Appended_without_load(e, file, record) ==
    save_data(e, "append_write", file, << record >>)

\* load_data followed by append and save_data
Appended(e, file, record) ==
    save_data(e, "append_write", file,
              Append(load_data(e, "append_read", file), record))

\* log_interaction keeping the lower-cased text
log_interaction_normalized(e, sender, message, reply) ==
    save_data(e, "log_write", logs,
              Append(load_data(e, "log_read", logs),
                     [sender |-> sender, message |-> Lower(message),
                      reply |-> reply, timestamp |-> now]))

\* log_interaction
log_interaction(e, sender, message, reply) ==
    save_data(e, "log_write", logs,
              Append(load_data(e, "log_read", logs),
                     [sender |-> sender, message |-> message,
                      reply |-> reply, timestamp |-> now]))

\* timedelta.seconds of (later - earlier)
timedelta_seconds(later, earlier) == (later - earlier) % SECONDS_PER_DAY

\* the test of clean_expired_states with >= in place of >
is_expired_at_timeout(s, current_time) ==
    /\ "timestamp" \in DOMAIN s
    /\ timedelta_seconds(current_time, s.timestamp) >= USER_STATE_TIMEOUT

\* the test of clean_expired_states on one state dict
is_expired(s, current_time) ==
    /\ "timestamp" \in DOMAIN s
    /\ timedelta_seconds(current_time, s.timestamp) > USER_STATE_TIMEOUT

\* clean_expired_states left out: user_state as it is
no_sweep(us, current_time) == us

\* clean_expired_states: user_state without the expired entries
clean_expired_states(us, current_time) ==
    [u \in { v \in DOMAIN us : ~is_expired(us[v], current_time) } |-> us[u]]

\* user_state.clear() in place of user_state.pop
Clear(d, k) == [x \in {} |-> d[x]]

\* dict operations on user_state and on a state dict
Put(d, k, v) == (k :> v) @@ d
Pop(d, k) == [x \in DOMAIN d \ {k} |-> d[x]]

----------------------------------------------------------------------------
(* Smart response helpers *)

is_number(text) == IntParses(text)

\* extract_number: the first run of digits, <<>> for None and <<n>> for n
extract_number(text) ==
    LET ds == { i \in DOMAIN text : IsDigitChar(text[i]) }
    IN  IF ds = {} THEN <<>>
        ELSE LET lo == Min(ds)
                 hi == CHOOSE j \in lo..Len(text) :
                          /\ \A k \in lo..j : IsDigitChar(text[k])
                          /\ (j = Len(text) \/ ~IsDigitChar(text[j + 1]))
             IN  << DecimalValue(SubSeq(text, lo, hi)) >>

contains_keywords(text, keywords) ==
    LET text_lower == Lower(text)
    IN  \E keyword \in keywords : Contains(keyword, text_lower)

\* flavour.lower() for flavour in CAKE_FLAVOURS
LOWER_FLAVOURS == [i \in DOMAIN CAKE_FLAVOURS |-> Lower(CAKE_FLAVOURS[i])]

is_cake_flavour(text) ==
    LET text_lower == Strip(Lower(text))
    IN  \E i \in DOMAIN CAKE_FLAVOURS : Contains(LOWER_FLAVOURS[i], text_lower)

get_cake_flavour_from_text(text) ==
    LET text_lower == Strip(Lower(text))
        hits == { i \in DOMAIN CAKE_FLAVOURS : Contains(LOWER_FLAVOURS[i], text_lower) }
    IN  IF hits # {} THEN CAKE_FLAVOURS[Min(hits)] ELSE Strip(text)

smart_intent_detection(text) ==
    LET text_lower == Strip(Lower(text))
    IN  IF contains_keywords(text, BOOKING_KEYWORDS) THEN "booking"
        ELSE IF contains_keywords(text, CAKE_KEYWORDS) THEN "cake"
        ELSE IF contains_keywords(text, REVIEW_KEYWORDS)
                \/ Contains(REVIEW_MARKER, text_lower) THEN "review"
        ELSE IF is_number(text) THEN "number"
        ELSE IF text_lower \in MENU_DATA THEN "menu_category"
        ELSE "unknown"

----------------------------------------------------------------------------
(* Review, booking and report helpers *)

\* the rating save_review parses: <<>> for None, <<n>> for n
parse_rating(rating_part) ==
    LET toks == Tokens(rating_part)
    IN  IF toks = <<>> \/ ~IntParses(toks[1]) THEN <<>>
        ELSE LET rating == IntValue(toks[1])
             IN  IF rating < 1 \/ rating > 5 THEN <<>> ELSE << rating >>

\* the review dict save_review builds and appends
review_record(sender, message_text) ==
    LET lowered == Lower(message_text)
        parts == Split(lowered, REVIEW_MARKER)
        marked == Contains(REVIEW_MARKER, lowered)
        review_part == parts[2]
        rated == marked /\ Contains(RATING_MARKER, review_part)
        pieces == Split(review_part, RATING_MARKER)
    IN  [customer |-> sender,
         review |-> IF ~marked THEN Strip(message_text)
                    ELSE IF rated THEN Strip(pieces[1])
                    ELSE Strip(review_part),
         rating |-> IF rated THEN parse_rating(Strip(pieces[2])) ELSE <<>>,
         timestamp |-> now]

\* the suffix f" {rating}⭐", empty when the rating is None
rating_str(review) == review.rating

\* r["customer"][-4:]
last4(customer) ==
    IF Len(customer) <= 4 THEN customer
    ELSE SubSeq(customer, Len(customer) - 3, Len(customer))

\* .date() of a timestamp
date_of(timestamp) == timestamp \div SECONDS_PER_DAY

\* get_reviews
get_reviews(e, mode) ==
    LET loaded == load_data(e, "report_read", reviews)
        todays == SelectSeq(loaded, LAMBDA r : date_of(r.timestamp) = date_of(now))
        shown == IF mode = "today" THEN todays ELSE loaded
    IN  IF loaded = <<>> THEN [kind |-> "no_reviews_yet"]
        ELSE IF mode = "today" /\ todays = <<>> THEN [kind |-> "no_reviews_today"]
        ELSE [kind |-> "reviews", mode |-> mode,
              entries |-> [i \in DOMAIN shown |->
                              [review |-> shown[i].review,
                               rating |-> rating_str(shown[i]),
                               cid |-> last4(shown[i].customer)]]]

\* booked_seats matching the slot's strings as they were typed
booked_seats_as_typed(e, date, time) ==
    LET file == load_data(e, "avail_read", bookings)
        matches(b) == b.date = date /\ b.time = time
        sum[i \in 0..Len(file)] ==
            IF i = 0 THEN 0
            ELSE sum[i - 1] + (IF matches(file[i]) THEN file[i].people ELSE 0)
    IN  sum[Len(file)]

\* the seats already booked for the slot, as check_table_availability sums them
booked_seats(e, date, time) ==
    LET file == load_data(e, "avail_read", bookings)
        matches(b) == /\ Strip(Lower(b.date)) = Strip(Lower(date))
                      /\ Strip(Lower(b.time)) = Strip(Lower(time))
        sum[i \in 0..Len(file)] ==
            IF i = 0 THEN 0
            ELSE sum[i - 1] + (IF matches(file[i]) THEN file[i].people ELSE 0)
    IN  sum[Len(file)]

\* check_table_availability: (available >= people, available)
check_table_availability(e, date, time, people) ==
    LET available == TOTAL_SEATS - booked_seats(e, date, time)
    IN  << available >= people, available >>

\* generate_report's count for today, taken as the count of all records
count_all(file) == Len(file)

count_today(file) ==
    Cardinality({ i \in DOMAIN file : date_of(file[i].timestamp) = date_of(now) })

\* generate_report
generate_report(e) ==
    LET loaded_bookings == load_data(e, "report_read", bookings)
        loaded_cakes == load_data(e, "report_read", cakes)
        loaded_reviews == load_data(e, "report_read", reviews)
    IN  [kind |-> "report", today |-> date_of(now),
         bookings_today |-> count_today(loaded_bookings),
         cakes_today |-> count_today(loaded_cakes),
         reviews_today |-> count_today(loaded_reviews),
         total_bookings |-> Len(loaded_bookings),
         total_cakes |-> Len(loaded_cakes),
         total_reviews |-> Len(loaded_reviews)]

----------------------------------------------------------------------------
(* The flows.  Each yields what the turn leaves behind: user_state, the     *)
(* three record files, the reply and the messages for the owner.           *)

Outcome(us, bk, ck, rv, reply, owner) ==
    [user_state |-> us, bookings |-> bk, cakes |-> ck, reviews |-> rv,
     reply |-> reply, owner |-> owner]

\* the notice for the owner sent twice
owner_notice_twice(owner_msg) ==
    IF OWNER_NUMBER # <<>> THEN << owner_msg, owner_msg >> ELSE <<>>

\* `if OWNER_NUMBER: send_twilio_message(f"whatsapp:{OWNER_NUMBER}", owner_msg)`
owner_notice(owner_msg) ==
    IF OWNER_NUMBER # <<>> THEN << owner_msg >> ELSE <<>>

\* the flavour cake step 1 stores
chosen_flavour(message_text) ==
    IF is_cake_flavour(message_text)
    THEN get_cake_flavour_from_text(message_text)
    ELSE Title(message_text)

\* step 2 storing whatever was typed
chosen_custom_message_verbatim(message_text) == message_text

\* the customization cake step 2 stores
chosen_custom_message(message_text) ==
    IF Lower(message_text) \in NO_CUSTOM_TOKENS
    THEN NO_CUSTOM_MESSAGE
    ELSE message_text

\* the cake order dict of step 4
cake_order(state, sender_number, message_text) ==
    [customer |-> sender_number,
     flavour |-> state.flavour,
     custom_message |-> IF "custom_message" \in DOMAIN state
                        THEN state.custom_message ELSE NO_CUSTOM_MESSAGE,
     date |-> state.date,
     time |-> message_text,
     timestamp |-> now]

\* webhook, `if state.get("flow") == "cake"`
cake_flow(e, us, sender_number, message_text) ==
    LET state == us[sender_number]
        keep(next, reply) ==
            Outcome(Put(us, sender_number, Put(next, "timestamp", now)),
                    bookings, cakes, reviews, reply, <<>>)
    IN  IF state.step = 1 THEN
            keep(Put(Put(state, "flavour", chosen_flavour(message_text)), "step", 2),
                 [kind |-> "ask_customization"])
        ELSE IF state.step = 2 THEN
            keep(Put(Put(state, "custom_message", chosen_custom_message(message_text)),
                     "step", 3),
                 [kind |-> "ask_pickup_date"])
        ELSE IF state.step = 3 THEN
            keep(Put(Put(state, "date", message_text), "step", 4),
                 [kind |-> "ask_pickup_time"])
        ELSE
            LET order == cake_order(state, sender_number, message_text)
            IN  Outcome(Pop(us, sender_number),
                        bookings, Appended(e, cakes, order), reviews,
                        [kind |-> "cake_confirmed",
                         flavour |-> order.flavour,
                         customization |->
                            IF Lower(order.custom_message) # Lower(NO_CUSTOM_MESSAGE)
                            THEN << order.custom_message >> ELSE <<>>,
                         date |-> order.date,
                         time |-> order.time],
                        owner_notice([kind |-> "new_cake_order",
                                      customer |-> sender_number,
                                      flavour |-> order.flavour,
                                      custom_message |-> order.custom_message,
                                      date |-> order.date,
                                      time |-> order.time]))

\* people_count of booking step 1: <<>> for None, <<n>> for n
people_count_of(message_text) ==
    IF is_number(message_text)
    THEN << IntValue(message_text) >>
    ELSE extract_number(message_text)

\* the test of step 1 without `people_count > 0`
people_count_any(people_count) ==
    people_count # <<>> /\ people_count[1] # 0

\* `if people_count and people_count > 0`
people_count_ok(people_count) ==
    people_count # <<>> /\ people_count[1] # 0 /\ people_count[1] > 0

\* webhook, booking step 1
booking_step1(us, sender_number, message_text) ==
    LET state == us[sender_number]
        people_count == people_count_of(message_text)
    IN  IF people_count_ok(people_count)
        THEN Outcome(Put(us, sender_number,
                         Put(Put(Put(state, "people", people_count[1]), "step", 2),
                             "timestamp", now)),
                     bookings, cakes, reviews,
                     [kind |-> "ask_date", people |-> people_count[1]], <<>>)
        ELSE Outcome(us, bookings, cakes, reviews,
                     [kind |-> "ask_people_again"], <<>>)

\* booking step 2 going on to step 3 without keeping the date
booking_step2_without_date(us, sender_number, message_text) ==
    LET state == us[sender_number]
    IN  Outcome(Put(us, sender_number,
                    Put(Put(state, "step", 3), "timestamp", now)),
                bookings, cakes, reviews, [kind |-> "ask_time"], <<>>)

\* webhook, booking step 2
booking_step2(us, sender_number, message_text) ==
    LET state == us[sender_number]
    IN  Outcome(Put(us, sender_number,
                    Put(Put(Put(state, "date", message_text), "step", 3),
                        "timestamp", now)),
                bookings, cakes, reviews, [kind |-> "ask_time"], <<>>)

\* booking step 3 with the pop of the state under the `else` alone
booking_step3_pop_on_success(e, us, sender_number, message_text) ==
    LET state == us[sender_number]
        avail == check_table_availability(e, state.date, message_text, state.people)
        booking == [customer |-> sender_number, people |-> state.people,
                    date |-> state.date, time |-> message_text, timestamp |-> now]
    IN  IF ~avail[1]
        THEN Outcome(Put(us, sender_number, Put(state, "time", message_text)),
                     bookings, cakes, reviews,
                     [kind |-> "no_seats", people |-> state.people,
                      time |-> message_text, date |-> state.date,
                      available_seats |-> avail[2]],
                     <<>>)
        ELSE Outcome(Pop(us, sender_number),
                     Appended(e, bookings, booking), cakes, reviews,
                     [kind |-> "booking_confirmed", people |-> state.people,
                      date |-> state.date, time |-> message_text],
                     owner_notice([kind |-> "new_booking",
                                   customer |-> sender_number,
                                   people |-> state.people,
                                   date |-> state.date,
                                   time |-> message_text]))

\* webhook, booking step 3
booking_step3(e, us, sender_number, message_text) ==
    LET state == us[sender_number]
        avail == check_table_availability(e, state.date, message_text, state.people)
        booking == [customer |-> sender_number, people |-> state.people,
                    date |-> state.date, time |-> message_text, timestamp |-> now]
    IN  IF ~avail[1]
        THEN Outcome(Pop(us, sender_number), bookings, cakes, reviews,
                     [kind |-> "no_seats", people |-> state.people,
                      time |-> message_text, date |-> state.date,
                      available_seats |-> avail[2]],
                     <<>>)
        ELSE Outcome(Pop(us, sender_number),
                     Appended(e, bookings, booking), cakes, reviews,
                     [kind |-> "booking_confirmed", people |-> state.people,
                      date |-> state.date, time |-> message_text],
                     owner_notice([kind |-> "new_booking",
                                   customer |-> sender_number,
                                   people |-> state.people,
                                   date |-> state.date,
                                   time |-> message_text]))

\* webhook, `elif state.get("flow") == "booking"`
booking_flow(e, us, sender_number, message_text) ==
    IF us[sender_number].step = 1 THEN booking_step1(us, sender_number, message_text)
    ELSE IF us[sender_number].step = 2 THEN booking_step2(us, sender_number, message_text)
    ELSE booking_step3(e, us, sender_number, message_text)

new_state(flow, step) == [flow |-> flow, step |-> step, timestamp |-> now]

\* the number branch with the limit of 50 people instead of 20
number_intent_up_to_50(us, sender_number, message_text) ==
    LET people_count == IntValue(message_text)
    IN  IF people_count > 0 /\ people_count <= 50
        THEN Outcome(Put(us, sender_number,
                         Put(new_state("booking", 2), "people", people_count)),
                     bookings, cakes, reviews,
                     [kind |-> "ask_date", people |-> people_count], <<>>)
        ELSE Outcome(us, bookings, cakes, reviews,
                     [kind |-> "number_prompt"], <<>>)

\* webhook, `elif intent == "number" and not user_state.get(sender_number)`
number_intent(us, sender_number, message_text) ==
    LET people_count == IntValue(message_text)
    IN  IF people_count > 0 /\ people_count <= 20
        THEN Outcome(Put(us, sender_number,
                         Put(new_state("booking", 2), "people", people_count)),
                     bookings, cakes, reviews,
                     [kind |-> "ask_date", people |-> people_count], <<>>)
        ELSE Outcome(us, bookings, cakes, reviews,
                     [kind |-> "number_prompt"], <<>>)

\* webhook, `elif intent == "review" or "review:" in normalized`
review_intent(e, us, sender_number, message_text) ==
    LET normalized == Lower(message_text)
        review == review_record(sender_number, message_text)
    IN  IF Contains(REVIEW_MARKER, normalized)
        THEN Outcome(us, bookings, cakes, Appended(e, reviews, review),
                     [kind |-> "review_thanks", rating |-> rating_str(review)],
                     owner_notice([kind |-> "new_review", review |-> review.review,
                                   rating |-> rating_str(review),
                                   customer |-> sender_number]))
        ELSE IF contains_keywords(message_text, REVIEW_KEYWORDS)
        THEN Outcome(us, bookings, cakes, Appended(e, reviews, review),
                     [kind |-> "feedback_thanks"],
                     owner_notice([kind |-> "new_feedback", review |-> review.review,
                                   customer |-> sender_number]))
        ELSE Outcome(us, bookings, cakes, reviews, [kind |-> "review_prompt"], <<>>)

\* webhook, the final `else`: the suggestions, or the AI responder's answer
fallback_reply(normalized) ==
    LET hit(words) == \E w \in words : Contains(w, normalized)
        suggestions ==
            (IF hit(FOOD_WORDS) THEN << "menu" >> ELSE <<>>)
            \o (IF hit(PARTY_WORDS) THEN << "cake" >> ELSE <<>>)
            \o (IF hit(VISIT_WORDS) THEN << "book" >> ELSE <<>>)
            \o (IF hit(HOURS_WORDS) THEN << "hours" >> ELSE <<>>)
            \o (IF hit(WHERE_WORDS) THEN << "location" >> ELSE <<>>)
    IN  IF suggestions # <<>>
        THEN [kind |-> "suggestions", suggestions |-> suggestions]
        ELSE [kind |-> "ai_response"]

\* webhook, from `intent = smart_intent_detection(message_text)` to the final
\* `else`: the dispatch of a message of a sender who is in no flow
intent_dispatch(e, us, sender_number, message_text) ==
    LET normalized == Lower(message_text)
        intent == smart_intent_detection(message_text)
        say(reply) == Outcome(us, bookings, cakes, reviews, reply, <<>>)
        start(flow, reply) ==
            Outcome(Put(us, sender_number, new_state(flow, 1)),
                    bookings, cakes, reviews, reply, <<>>)
    IN  IF intent = "booking" \/ normalized \in BOOKING_KEYWORDS
            THEN start("booking", [kind |-> "ask_people"])
        ELSE IF intent = "cake" \/ normalized \in CAKE_KEYWORDS
            THEN start("cake", [kind |-> "ask_flavour"])
        ELSE IF intent = "number" /\ sender_number \notin DOMAIN us
            THEN number_intent(us, sender_number, message_text)
        ELSE IF intent = "review" \/ Contains(REVIEW_MARKER, normalized)
            THEN review_intent(e, us, sender_number, message_text)
        ELSE IF intent = "menu_category" \/ normalized \in MENU_DATA
            THEN say([kind |-> "menu_category", category |-> normalized])
        ELSE IF normalized \in GREETINGS
            THEN IF normalized = <<"1">>
                 THEN say([kind |-> "menu_categories"])
                 ELSE say([kind |-> "main_menu", options |-> MAIN_MENU_OPTIONS])
        ELSE IF normalized = <<"2">>
            THEN start("cake", [kind |-> "ask_flavour"])
        ELSE IF normalized = <<"3">>
            THEN start("booking", [kind |-> "ask_people"])
        ELSE IF normalized \in HOURS_COMMANDS
            THEN say([kind |-> "opening_hours"])
        ELSE IF normalized \in LOCATION_COMMANDS
            THEN say([kind |-> "location"])
        ELSE IF normalized = <<"6">>
            THEN say([kind |-> "review_prompt"])
        ELSE IF normalized \in CANCEL_COMMANDS
            THEN IF sender_number \in DOMAIN us
                 THEN Outcome(Pop(us, sender_number), bookings, cakes, reviews,
                              [kind |-> "cancelled"], <<>>)
                 ELSE say([kind |-> "how_can_i_help"])
        ELSE say(fallback_reply(normalized))

----------------------------------------------------------------------------
(* The webhook handler *)

\* is_owner_command without the test of the sender
is_owner_command_any_sender(sender_number, normalized) ==
    StartsWith(normalized, REPORT_PREFIX) \/ StartsWith(normalized, REVIEWS_PREFIX)

\* webhook, `if sender_number == OWNER_NUMBER`: whether the message is one of
\* the owner's commands
is_owner_command(sender_number, normalized) ==
    /\ sender_number = OWNER_NUMBER
    /\ (StartsWith(normalized, REPORT_PREFIX) \/ StartsWith(normalized, REVIEWS_PREFIX))

\* the reply to an owner command
owner_command_reply(e, normalized) ==
    IF StartsWith(normalized, REPORT_PREFIX) THEN generate_report(e)
    ELSE get_reviews(e, IF Contains(TODAY_WORD, normalized) THEN "today" ELSE "all")

\* handle_message giving up, with the fallback reply, when a storage call fails
handle_message_stops_on_failure(e, us, sender_number, message_text) ==
    IF e.failing # {}
        THEN Outcome(us, bookings, cakes, reviews, [kind |-> "ai_response"], <<>>)
    ELSE IF sender_number \in DOMAIN us /\ us[sender_number].flow = "cake"
        THEN cake_flow(e, us, sender_number, message_text)
    ELSE IF sender_number \in DOMAIN us /\ us[sender_number].flow = "booking"
        THEN booking_flow(e, us, sender_number, message_text)
    ELSE intent_dispatch(e, us, sender_number, message_text)

\* webhook with a text holding "review:" classified before the flows
handle_message_review_first(e, us, sender_number, message_text) ==
    IF Contains(REVIEW_MARKER, Lower(message_text))
        THEN intent_dispatch(e, us, sender_number, message_text)
    ELSE IF sender_number \in DOMAIN us /\ us[sender_number].flow = "cake"
        THEN cake_flow(e, us, sender_number, message_text)
    ELSE IF sender_number \in DOMAIN us /\ us[sender_number].flow = "booking"
        THEN booking_flow(e, us, sender_number, message_text)
    ELSE intent_dispatch(e, us, sender_number, message_text)

\* webhook, from the session lookup on: the flow the sender is in takes the
\* message, and a sender in no flow goes through the intent dispatch
handle_message(e, us, sender_number, message_text) ==
    IF sender_number \in DOMAIN us /\ us[sender_number].flow = "cake"
        THEN cake_flow(e, us, sender_number, message_text)
    ELSE IF sender_number \in DOMAIN us /\ us[sender_number].flow = "booking"
        THEN booking_flow(e, us, sender_number, message_text)
    ELSE intent_dispatch(e, us, sender_number, message_text)

\* what `turn` records of a request: who sent what and when, the sender's
\* state dict before the sweep (stored) and at the lookup (found), each as a
\* set with at most one element, the messages sent, in order, and the response
Turn(sender_number, message_text, stored, found, sent, response) ==
    [sender |-> sender_number, text |-> message_text, at |-> now,
     stored |-> stored, found |-> found, sent |-> sent, response |-> response]

StateOf(us, sender_number) ==
    IF sender_number \in DOMAIN us THEN { us[sender_number] } ELSE {}

\* text.replace(old, new)
RECURSIVE Join(_, _)
Join(pieces, new) ==
    IF Len(pieces) = 1 THEN pieces[1]
    ELSE pieces[1] \o new \o Join(Tail(pieces), new)

Replace(text, old, new) == Join(Split(text, old), new)

\* send_twilio_message: the call and what it returns
send_twilio_message(e, to, body) ==
    [to |-> to, body |-> body, delivered |-> to \notin e.unreachable]

\* A form-encoded request: From and Body, <<>> for a field that is missing
FormRequest(frm, body) == [shape |-> "form", From |-> frm, Body |-> body]

\* A JSON request.  `data` is a dict whose values are strings, or dicts at
\* "payload", "message", "contact" and "sender" of the payload; is_dict and
\* strings are FALSE for a body that is not an object (`data.get` raises; the
\* body is then held in the field `value`) and for a text or sender that is
\* not a string (`.strip()` raises).
JsonRequest(data, is_dict, strings) ==
    [shape |-> "json", data |-> data, is_dict |-> is_dict, strings |-> strings]

\* d.get(k), <<>> for None
Get(d, k) == IF k \in DOMAIN d THEN d[k] ELSE <<>>

\* a or b
Or(a, b) == IF a # <<>> THEN a ELSE b

\* webhook, `if request.form:` -- the sender and the text of a form request
extract_form(request) ==
    << IF request.From # <<>>
       THEN Strip(Replace(request.From, WHATSAPP_PREFIX, <<>>)) ELSE <<>>,
       IF request.Body # <<>> THEN Strip(request.Body) ELSE <<>> >>

\* webhook, `if not message_text:` -- the sender and the text of a JSON request
extract_json(data) ==
    LET payload == Get(data, "payload")
        msg == Or(Get(payload, "message"), Get(payload, "payload"))
        contact == Or(Get(payload, "contact"), Get(payload, "sender"))
        from_payload == Or(Or(Get(contact, "id"), Get(contact, "phone")),
                           Get(contact, "number"))
        text_payload == Or(Get(msg, "text"), Get(msg, "body"))
    IN  << Or(Or(from_payload, Get(data, "from")), Get(data, "sender")),
           Or(Or(text_payload, Get(data, "text")), Get(data, "message")) >>

\* whether reading the request raises before the handler has a sender and a text
extract_raises(request) ==
    /\ request.shape = "json"
    /\ request.data # <<>>
    /\ ~request.is_dict \/ ~request.strings

extract(request) ==
    IF request.shape = "form" THEN extract_form(request)
    ELSE extract_json(request.data)

\* what a request leaves behind
Effects(us, bk, ck, rv, lg, t) ==
    [user_state |-> us, bookings |-> bk, cakes |-> ck, reviews |-> rv,
     logs |-> lg, turn |-> t]

\* the element of a set of one element: a value computed once
The(S) == CHOOSE x \in S : TRUE

\* webhook, from `if not message_text or not sender_number` on, with the
\* sender and the text as the request gave them (raw) and stripped
handler(request, e, raw, sender_number, message_text) ==
    LET swept == clean_expired_states(user_state, now)
        normalized == Lower(message_text)
        stored == StateOf(user_state, sender_number)
        found == StateOf(swept, sender_number)
        record(sent, response) ==
            [request |-> request, env |-> e]
            @@ Turn(sender_number, message_text, stored, found, sent, response)
        in_flow == /\ sender_number \in DOMAIN swept
                   /\ swept[sender_number].flow \in { "cake", "booking" }
    IN  IF raw[1] = <<>> \/ raw[2] = <<>> THEN
            Effects(swept, bookings, cakes, reviews, logs,
                    record(<<>>, "no message to process"))
        ELSE IF is_owner_command(sender_number, normalized) THEN
            LET reply == owner_command_reply(e, normalized)
                sent == << send_twilio_message(e, sender_number, reply) >>
            IN  IF e.log_is_list
                THEN Effects(swept, bookings, cakes, reviews,
                             log_interaction(e, sender_number, message_text, reply),
                             record(sent, "success"))
                ELSE Effects(swept, bookings, cakes, reviews, logs,
                             record(sent, "internal server error"))
        ELSE
            The({ LET notices == [i \in DOMAIN out.owner |->
                                     send_twilio_message(e, OWNER_NUMBER, out.owner[i])]
                      reply == << send_twilio_message(e, sender_number, out.reply) >>
                  IN  IF e.log_is_list
                      THEN Effects(out.user_state, out.bookings, out.cakes, out.reviews,
                                   log_interaction(e, sender_number, message_text,
                                                   out.reply),
                                   record(notices \o reply, "success"))
                      ELSE Effects(out.user_state, out.bookings, out.cakes, out.reviews,
                                   logs,
                                   record(IF in_flow THEN notices \o reply ELSE notices,
                                          "internal server error"))
                  : out \in { handle_message(e, swept, sender_number, message_text) } })

\* webhook: the handler's effects on a request that meets the conditions e.
\* The sender and the text are read from the request once.
webhook(request, e) ==
    IF extract_raises(request) THEN
        Effects(clean_expired_states(user_state, now),
                bookings, cakes, reviews, logs,
                [request |-> request, env |-> e]
                @@ Turn(<<>>, <<>>, {}, {}, <<>>, "internal server error"))
    ELSE
        The({ The({ handler(request, e, raw, sender_number, message_text) :
                        sender_number \in { Strip(raw[1]) },
                        message_text \in { Strip(raw[2]) } }) :
                  raw \in { extract(request) } })

\* POST /webhook with the request, under the conditions e
Request(request, e) ==
    \E after \in { webhook(request, e) } :
        /\ user_state' = after.user_state
        /\ bookings' = after.bookings
        /\ cakes' = after.cakes
        /\ reviews' = after.reviews
        /\ logs' = after.logs
        /\ turn' = after.turn
        /\ UNCHANGED <<now, threads>>

\* POST /webhook with From = frm and Body = body, Twilio and the data
\* directory working
Webhook(frm, body) == Request(FormRequest(frm, body), WORKING)

\* the clock moves on by d seconds between two requests
Tick(d) ==
    /\ d > 0
    /\ now' = now + d
    /\ UNCHANGED <<user_state, bookings, cakes, reviews, logs, turn, threads>>

\* the process has started: no conversation, and a data directory with no files
Init ==
    /\ now = 0
    /\ user_state = <<>>
    /\ bookings = <<>>
    /\ cakes = <<>>
    /\ reviews = <<>>
    /\ logs = <<>>
    /\ turn = [sender |-> <<>>, text |-> <<>>, at |-> 0, stored |-> {},
               found |-> {}, sent |-> <<>>, response |-> "none",
               request |-> FormRequest(<<>>, <<>>), env |-> WORKING]
    /\ threads = <<>>

----------------------------------------------------------------------------
(* Senders, message texts and the specifications *)

CUSTOMER_A == <<"9", "0", "0", "0", "1">>
CUSTOMER_B == <<"9", "0", "0", "0", "2">>

\* the reply of a handled turn: the last message sent
Reply(t) == t.sent[Len(t.sent)].body

\* the messages a turn sent to the owner as notifications
OwnerNotices(t) ==
    SelectSeq(SubSeq(t.sent, 1, Len(t.sent) - 1), LAMBDA m : m.to = OWNER_NUMBER)

\* a step that handled a message with a sender and a text
Handled == logs' # logs

\* the clock readings day * 86400 + k * 300 + e
Instants(days, timeouts, extra) ==
    { d * SECONDS_PER_DAY + k * USER_STATE_TIMEOUT + e :
        d \in 0..days, k \in 0..timeouts, e \in 0..extra }

\* the clock moves on to the reading t
Advance(t) == Tick(t - now)

T_1 == <<"1">>
T_2 == <<"2">>
T_3 == <<"3">>
T_4 == <<"4">>
T_5 == <<"5">>
T_6 == <<"6">>
T_today == <<"t", "o", "d", "a", "y">>
T_Today == <<"T", "o", "d", "a", "y">>
T_7PM == <<"7", " ", "P", "M">>
T_book == <<"b", "o", "o", "k">>
T_cake == <<"c", "a", "k", "e">>
T_cancel == <<"c", "a", "n", "c", "e", "l">>

(* Spec: the numbered commands and Scenario B, one customer *)

MaxTurns == 4
MaxWaits == 1

ScenarioTexts == { T_1, T_2, T_3, T_4, T_5, T_6, T_today, T_7PM }

Next ==
    \/ \E body \in ScenarioTexts :
          /\ Len(logs) < MaxTurns
          /\ Webhook(CUSTOMER_A, body)
    \/ \E t \in Instants(0, MaxWaits, 0) : Advance(t)

Spec == Init /\ [][Next]_vars

----------------------------------------------------------------------------
(* Scenario B and the numbered commands, under Spec *)

\* the log shows exactly these texts, all from one sender, each at most the
\* timeout after the one before
Conversation(sender, texts) ==
    /\ Len(logs) = Len(texts)
    /\ \A i \in DOMAIN logs : logs[i].sender = sender /\ logs[i].message = texts[i]
    /\ \A i \in 1..(Len(logs) - 1) :
          logs[i + 1].timestamp - logs[i].timestamp <= USER_STATE_TIMEOUT

\* C4: after "3", "4", "today", "7 PM" from a sender who had no session, each
\* within the timeout, there is exactly one booking, for 4 people, today at
\* 7 PM, and the sender has no session.
C4_ScenarioB ==
    Conversation(CUSTOMER_A, << T_3, T_4, T_today, T_7PM >>)
    => /\ Len(bookings) = 1
       /\ bookings[1].people = 4
       /\ bookings[1].date = T_today
       /\ bookings[1].time = T_7PM
       /\ CUSTOMER_A \notin DOMAIN user_state

\* the sender of the last turn is in no flow / at step 1 of the flow
NoSessionNow == turn.sender \notin DOMAIN user_state
AtStepOne(flow) ==
    /\ turn.sender \in DOMAIN user_state
    /\ user_state[turn.sender].flow = flow
    /\ user_state[turn.sender].step = 1
    /\ DOMAIN user_state[turn.sender] = {"flow", "step", "timestamp"}

\* C7: from a sender with no session, "1" shows the menu categories, "2"
\* starts the cake flow at step 1, "3" starts the booking flow at step 1,
\* "4" shows the hours, "5" the location and "6" the review prompt; the
\* numbered command wins over the free-standing integer.
C7_NumberedCommands ==
    (turn.response = "success" /\ turn.found = {})
    => /\ turn.text = T_1 => Reply(turn).kind = "menu_categories" /\ NoSessionNow
       /\ turn.text = T_2 => Reply(turn).kind = "ask_flavour" /\ AtStepOne("cake")
       /\ turn.text = T_3 => Reply(turn).kind = "ask_people" /\ AtStepOne("booking")
       /\ turn.text = T_4 => Reply(turn).kind = "opening_hours" /\ NoSessionNow
       /\ turn.text = T_5 => Reply(turn).kind = "location" /\ NoSessionNow
       /\ turn.text = T_6 => Reply(turn).kind = "review_prompt" /\ NoSessionNow

----------------------------------------------------------------------------
(* SpecExpiry: one customer starts a flow and writes again after a pause of *)
(* up to a day and more                                                    *)

MaxExpiryTurns == 3
MaxDays == 1
MaxTimeouts == 1
MaxExtra == 1

ExpiryTexts == { T_book, T_cake, T_4 }

NextExpiry ==
    \/ \E body \in ExpiryTexts :
          /\ Len(logs) < MaxExpiryTurns
          /\ Webhook(CUSTOMER_A, body)
    \/ \E t \in Instants(MaxDays, MaxTimeouts, MaxExtra) : Advance(t)

SpecExpiry == Init /\ [][NextExpiry]_vars

\* C1: a state dict whose timestamp is more than 300 seconds before the
\* message, by however much, is absent at the lookup of that message.
C1_ExpiredSessionAbsent ==
    \A s \in turn.stored :
        turn.at - s.timestamp > USER_STATE_TIMEOUT => turn.found = {}

----------------------------------------------------------------------------
(* SpecCapacity: a customer books a slot and asks for it again, typed in   *)
(* another case                                                            *)

MaxCapacityTurns == 6

T_20 == <<"2", "0">>

CapacityTexts == { T_20, T_4, T_5, T_today, T_Today }

NextCapacity ==
    \E body \in CapacityTexts :
        /\ Len(logs) < MaxCapacityTurns
        /\ Webhook(CUSTOMER_A, body)

SpecCapacity == Init /\ [][NextCapacity]_vars

\* a slot: the date and the time, trimmed, case ignored
SlotKey(date, time) == << Strip(Lower(date)), Strip(Lower(time)) >>

\* the party sizes of the bookings of `file` for the slot `key`, added up
RECURSIVE SeatsTaken(_, _)
SeatsTaken(file, key) ==
    IF file = <<>> THEN 0
    ELSE (IF SlotKey(Head(file).date, Head(file).time) = key
          THEN Head(file).people ELSE 0)
         + SeatsTaken(Tail(file), key)

\* C2: for every slot, the party sizes of the persisted bookings add up to
\* TOTAL_SEATS at most.
C2_Capacity ==
    \A i \in DOMAIN bookings :
        SeatsTaken(bookings, SlotKey(bookings[i].date, bookings[i].time)) <= TOTAL_SEATS

\* two bookings of one slot, their dates typed in different case, fill it
C2_SlotFull ==
    \E i, j \in DOMAIN bookings :
        /\ bookings[i].date # bookings[j].date
        /\ SlotKey(bookings[i].date, bookings[i].time)
              = SlotKey(bookings[j].date, bookings[j].time)
        /\ SeatsTaken(bookings, SlotKey(bookings[i].date, bookings[i].time)) = TOTAL_SEATS

\* C5: a booking at step 3 whose party does not fit the seats left in the slot
\* is rejected: the reply gives TOTAL_SEATS minus the seats booked for the
\* slot, bookings is unchanged, the owner gets nothing, the state is removed.
C5_InsufficientSeats ==
    [][\A st \in turn'.found :
          ( /\ Handled
            /\ ~is_owner_command(turn'.sender, Lower(turn'.text))
            /\ st.flow = "booking" /\ st.step = 3
            /\ SeatsTaken(bookings, SlotKey(st.date, turn'.text)) + st.people
                  > TOTAL_SEATS )
          => /\ Reply(turn').kind = "no_seats"
             /\ Reply(turn').available_seats
                   = TOTAL_SEATS - SeatsTaken(bookings, SlotKey(st.date, turn'.text))
             /\ bookings' = bookings
             /\ OwnerNotices(turn') = <<>>
             /\ turn'.sender \notin DOMAIN user_state']_vars

\* a request for 5 seats, its date typed in another case than the booking's,
\* was rejected with 4 seats left in the slot
C5_Rejected ==
    /\ \E st \in turn.found :
          /\ st.flow = "booking" /\ st.step = 3 /\ st.people = 5
          /\ st.date # bookings[1].date
    /\ turn.response = "success"
    /\ Reply(turn).kind = "no_seats"
    /\ Reply(turn).available_seats = 4
    /\ Len(bookings) = 1

----------------------------------------------------------------------------
(* SpecStep1: the party size, asked for at step 1 or sent as a bare number *)

MaxStep1Turns == 5

T_0 == <<"0">>
T_minus3 == <<"-", "3">>
T_51 == <<"5", "1">>

Step1Texts == { T_book, T_minus3, T_0, T_51, T_4, T_today }

NextStep1 ==
    \E body \in Step1Texts :
        /\ Len(logs) < MaxStep1Turns
        /\ Webhook(CUSTOMER_A, body)

SpecStep1 == Init /\ [][NextStep1]_vars

\* the inputs the claim has step 1 reject: no digits, or a number <= 0 or > 50
Step1Invalid(text) ==
    LET n == people_count_of(text)
    IN  n = <<>> \/ n[1] <= 0 \/ n[1] > 50

\* C3: at booking step 1 a message with no digits, or with a number <= 0 or
\* > 50, leaves the state at step 1 with no party size and creates no
\* booking; a number in 1..50 moves the state to step 2.
C3_Step1Rejection ==
    [][\A st \in turn'.found :
          ( /\ Handled
            /\ ~is_owner_command(turn'.sender, Lower(turn'.text))
            /\ st.flow = "booking" /\ st.step = 1 )
          => /\ turn'.sender \in DOMAIN user_state'
             /\ bookings' = bookings
             /\ IF Step1Invalid(turn'.text)
                THEN /\ user_state'[turn'.sender].step = 1
                     /\ "people" \notin DOMAIN user_state'[turn'.sender]
                ELSE /\ user_state'[turn'.sender].step = 2
                     /\ user_state'[turn'.sender].people
                           = people_count_of(turn'.text)[1]]_vars

\* C9: every persisted booking has a party size > 0.
C9_PositiveParty == \A i \in DOMAIN bookings : bookings[i].people > 0

\* a booking was persisted after step 1 had refused "-3"
C9_BookedAfterRefusal ==
    /\ bookings # <<>>
    /\ \E i \in DOMAIN logs :
          logs[i].message = T_minus3 /\ logs[i].reply.kind = "ask_people_again"
    /\ Reply(turn).kind = "booking_confirmed"

----------------------------------------------------------------------------
(* SpecCancel: "cancel" sent in the flows *)

MaxCancelTurns == 5

CancelTexts == { T_book, T_cake, T_4, T_cancel }

NextCancel ==
    \E body \in CancelTexts :
        /\ Len(logs) < MaxCancelTurns
        /\ Webhook(CUSTOMER_A, body)

SpecCancel == Init /\ [][NextCancel]_vars

\* C6: a cancellation keyword from a sender in a flow removes the sender's
\* state; the message persists no booking and no cake order.
C6_Cancellation ==
    [][\A st \in turn'.found :
          (Handled /\ Lower(turn'.text) \in CANCEL_COMMANDS)
          => /\ turn'.sender \notin DOMAIN user_state'
             /\ bookings' = bookings
             /\ cakes' = cakes]_vars

----------------------------------------------------------------------------
(* SpecBare: bare integers from a sender in no flow *)

MaxBareTurns == 3

T_7 == <<"7">>
T_21 == <<"2", "1">>
T_yes == <<"y", "e", "s">>
T_no == <<"n", "o">>

BareTexts == { T_7, T_20, T_21, T_0, T_yes, T_no }

NextBare ==
    \E body \in BareTexts :
        /\ Len(logs) < MaxBareTurns
        /\ Webhook(CUSTOMER_A, body)

SpecBare == Init /\ [][NextBare]_vars

NumberedCommands == { T_1, T_2, T_3, T_4, T_5, T_6 }

\* the last turn handled a bare integer, no numbered command, from a sender
\* in no flow
BareIntegerTurn ==
    /\ turn.response = "success"
    /\ turn.found = {}
    /\ IntParses(turn.text)
    /\ turn.text \notin NumberedCommands

\* C8, as claimed: the bare integer only offers a booking; the sender is not in
\* the booking flow before a 'yes'.
C8_OfferBeforeBooking ==
    BareIntegerTurn
    => ~( /\ turn.sender \in DOMAIN user_state
          /\ user_state[turn.sender].flow = "booking" )

\* C8, amended: a bare integer n from a sender in no flow puts the sender
\* straight at booking step 2 with people = n when 1 <= n <= 20, and creates
\* no state otherwise; the next message, a 'yes' or a 'no' too, is the date.
C8_BareIntegerStartsBooking ==
    /\ BareIntegerTurn
       => IF IntValue(turn.text) >= 1 /\ IntValue(turn.text) <= 20
          THEN /\ turn.sender \in DOMAIN user_state
               /\ user_state[turn.sender]
                     = [flow |-> "booking", step |-> 2,
                        people |-> IntValue(turn.text), timestamp |-> turn.at]
               /\ Reply(turn).kind = "ask_date"
          ELSE /\ turn.sender \notin DOMAIN user_state
               /\ Reply(turn).kind = "number_prompt"
    /\ \A st \in turn.found :
          ( /\ turn.response = "success"
            /\ st.flow = "booking" /\ st.step = 2
            /\ turn.text \in { T_yes, T_no } )
          => /\ turn.sender \in DOMAIN user_state
             /\ user_state[turn.sender].step = 3
             /\ user_state[turn.sender].date = turn.text
             /\ user_state[turn.sender].people = st.people

\* "7" put the sender at step 2, and the "no" that followed became the date
C8_NoTakenAsDate ==
    /\ Len(logs) = 2
    /\ logs[1].message = T_7
    /\ turn.text = T_no
    /\ CUSTOMER_A \in DOMAIN user_state
    /\ user_state[CUSTOMER_A].step = 3
    /\ user_state[CUSTOMER_A].people = 7
    /\ user_state[CUSTOMER_A].date = T_no


-----------------------------------------------------------------------------
(* SpecCake: a customer and the owner order cakes, with pauses of up to the *)
(* timeout                                                                  *)

MaxCakeTurns == 5
MaxCakeWaits == 1

T_mango_cake == <<"m", "a", "n", "g", "o", " ", "c", "a", "k", "e">>
T_nOPE == <<"n", "O", "P", "E">>
T_report == <<"r", "e", "p", "o", "r", "t">>

CakeTextsOf(sender) ==
    IF sender = OWNER_NUMBER
    THEN { T_mango_cake, T_report }
    ELSE { T_mango_cake, T_nOPE }

NextCake ==
    \/ \E sender \in { CUSTOMER_A, OWNER_NUMBER } :
          \E body \in CakeTextsOf(sender) :
              /\ Len(logs) < MaxCakeTurns
              /\ Webhook(sender, body)
    \/ \E t \in Instants(0, MaxCakeWaits, 0) : Advance(t)

SpecCake == Init /\ [][NextCake]_vars

\* the fields a cake state dict has collected so far
Collected(st) == DOMAIN st \ { "step", "timestamp" }

\* the state dict after a step keeps everything collected before it
KeepsCollected(st, next) ==
    \A k \in Collected(st) : k \in DOMAIN next /\ next[k] = st[k]

\* the tokens that stand for no customization
NegativeTokens ==
    { <<"n", "o">>, <<"n", "o", "n", "e">>, <<"n", "o", "p", "e">>, <<"n", "a">> }

\* what a turn of the cake flow at step st.step has to do with the text
CakeStepDone(st, sender, text) ==
    IF st.step < 4 THEN
        /\ sender \in DOMAIN user_state'
        /\ LET next == user_state'[sender]
           IN  /\ next.flow = "cake"
               /\ next.step = st.step + 1
               /\ KeepsCollected(st, next)
               /\ st.step = 1 =>
                     /\ Reply(turn').kind = "ask_customization"
                     /\ IF \E i \in DOMAIN CAKE_FLAVOURS :
                              Contains(Lower(CAKE_FLAVOURS[i]), Lower(text))
                        THEN next.flavour \in Range(CAKE_FLAVOURS)
                        ELSE next.flavour = Title(text)
               /\ st.step = 2 =>
                     /\ Reply(turn').kind = "ask_pickup_date"
                     /\ Lower(text) \in NegativeTokens
                            => next.custom_message = NO_CUSTOM_MESSAGE
                     /\ Lower(text) \notin NO_CUSTOM_TOKENS
                            => next.custom_message = text
               /\ st.step = 3 =>
                     /\ Reply(turn').kind = "ask_pickup_time"
                     /\ next.date = text
        /\ cakes' = cakes
        /\ OwnerNotices(turn') = <<>>
    ELSE
        /\ sender \notin DOMAIN user_state'
        /\ Len(cakes') = Len(cakes) + 1
        /\ SubSeq(cakes', 1, Len(cakes)) = cakes
        /\ LET order == cakes'[Len(cakes')]
           IN  /\ order.customer = sender
               /\ order.flavour = st.flavour
               /\ order.custom_message = st.custom_message
               /\ order.date = st.date
               /\ order.time = text
               /\ Len(OwnerNotices(turn')) = 1
               /\ LET notice == OwnerNotices(turn')[1].body
                  IN  /\ notice.kind = "new_cake_order"
                      /\ notice.customer = sender
                      /\ notice.flavour = order.flavour
                      /\ notice.custom_message = order.custom_message
                      /\ notice.date = order.date
                      /\ notice.time = order.time
        /\ Reply(turn').kind = "cake_confirmed"

\* C10: a non-empty message from a sender other than the owner whose stored
\* state is a cake state at most the timeout old is never refused: steps 1, 2
\* and 3 store the flavour (a known flavour or the text title-cased), the
\* customization (no, none, nope, na stand for no custom message) and the date
\* and move one step on with the next prompt; step 4 appends exactly one cake
\* order with the flavour, customization and date collected and the text as
\* time, sends the owner one notice of it and removes the state.
C10_CakeFlowNeverRejects ==
    [][ \A st \in turn'.stored :
            ( /\ Handled
              /\ turn'.sender # OWNER_NUMBER
              /\ st.flow = "cake"
              /\ turn'.at - st.timestamp <= USER_STATE_TIMEOUT )
            => /\ turn'.found = { st }
               /\ bookings' = bookings
               /\ reviews' = reviews
               /\ CakeStepDone(st, turn'.sender, turn'.text) ]_vars

\* "mango cake", "nOPE", "nOPE", "mango cake", "nOPE": an order for "Nope"
\* with no custom message has just been taken at step 4
C10_CakeOrdered ==
    /\ Len(cakes) = 1
    /\ cakes[1].customer = CUSTOMER_A
    /\ cakes[1].flavour = <<"N", "o", "p", "e">>
    /\ cakes[1].custom_message = NO_CUSTOM_MESSAGE
    /\ cakes[1].date = T_mango_cake
    /\ cakes[1].time = T_nOPE
    /\ turn.sender = CUSTOMER_A
    /\ \E st \in turn.found : st.flow = "cake" /\ st.step = 4
    /\ Len(OwnerNotices(turn)) = 1
    /\ CUSTOMER_A \notin DOMAIN user_state


-----------------------------------------------------------------------------
(* SpecReview: a customer writes reviews in the `review: ... rating: n`     *)
(* format and the owner lists them                                          *)

MaxReviewTurns == 3

T_review_9 == <<"r", "e", "v", "i", "e", "w", ":", " ", "o", "k", " ", "r", "a", "t", "i", "n", "g", ":", " ", "9">>
T_review_5 == <<"R", "e", "v", "i", "e", "w", ":", " ", "F", "i", "n", "e", " ", "R", "A", "T", "I", "N", "G", ":", " ", "5">>
T_review_0 == <<"r", "e", "v", "i", "e", "w", ":", " ", "o", "k", " ", "r", "a", "t", "i", "n", "g", ":", " ", "0">>
T_review_x == <<"r", "e", "v", "i", "e", "w", ":", " ", "o", "k", " ", "r", "a", "t", "i", "n", "g", ":", " ", "5", ".", "0">>
T_review_plain == <<"r", "e", "v", "i", "e", "w", ":", " ", "o", "k">>
T_review_cake == <<"r", "e", "v", "i", "e", "w", ":", " ", "n", "i", "c", "e", " ", "c", "a", "k", "e", " ", "r", "a", "t", "i", "n", "g", ":", " ", "4">>
T_reviews == <<"r", "e", "v", "i", "e", "w", "s">>

ReviewTextsOf(sender) ==
    IF sender = OWNER_NUMBER
    THEN { T_reviews }
    ELSE { T_review_9, T_review_5, T_review_0, T_review_x, T_review_plain,
           T_review_cake }

NextReview ==
    \E sender \in { CUSTOMER_A, OWNER_NUMBER } :
        \E body \in ReviewTextsOf(sender) :
            /\ Len(logs) < MaxReviewTurns
            /\ Webhook(sender, body)

SpecReview == Init /\ [][NextReview]_vars

\* what follows the first "review:" of a message, as it was typed
AfterReviewMarker(message) ==
    LET start == Min(Occurrences(REVIEW_MARKER, Lower(message))) + Len(REVIEW_MARKER)
    IN  SubSeq(message, start, Len(message))

\* the rating a message asks for: <<n>> when the first word after "rating:"
\* is an integer n with 1 <= n <= 5, <<>> otherwise
RatingTyped(message) ==
    LET rest == Lower(AfterReviewMarker(message))
        at == Occurrences(RATING_MARKER, rest)
        words == Tokens(SubSeq(rest, Min(at) + Len(RATING_MARKER), Len(rest)))
    IN  IF at = {} \/ words = <<>> THEN <<>>
        ELSE IF ~IntParses(words[1]) THEN <<>>
        ELSE IF IntValue(words[1]) < 1 \/ IntValue(words[1]) > 5 THEN <<>>
        ELSE << IntValue(words[1]) >>

\* C11: every message that contains "review:", from a sender with no state,
\* appends exactly one review, whose rating is the integer after "rating:"
\* when that is in 1..5 and is absent otherwise.
C11_ReviewRating ==
    [][ ( /\ Handled
          /\ turn'.found = {}
          /\ ~is_owner_command(turn'.sender, Lower(turn'.text))
          /\ Contains(REVIEW_MARKER, Lower(turn'.text)) )
        => /\ Len(reviews') = Len(reviews) + 1
           /\ SubSeq(reviews', 1, Len(reviews)) = reviews
           /\ reviews'[Len(reviews')].rating = RatingTyped(turn'.text) ]_vars

\* the body of a review as it was typed: between "review:" and "rating:",
\* or the whole message when it has no "review:"
ReviewBody(message) ==
    IF ~Contains(REVIEW_MARKER, Lower(message)) THEN Strip(message)
    ELSE LET rest == AfterReviewMarker(message)
             at == Occurrences(RATING_MARKER, Lower(rest))
         IN  IF at = {} THEN Strip(rest)
             ELSE Strip(SubSeq(rest, 1, Min(at) - 1))

\* the turns of the log that saved a review
SavedReviews ==
    SelectSeq(logs, LAMBDA l : l.reply.kind \in { "review_thanks", "feedback_thanks" })

\* C12: the owner's listing of all reviews has one entry for each review
\* saved, in the order they were saved, each with the text and the rating
\* that were typed.
C12_ReviewRoundTrip ==
    ( /\ turn.sender = OWNER_NUMBER
      /\ turn.text = T_reviews
      /\ SavedReviews # <<>> )
    => /\ Reply(turn).kind = "reviews"
       /\ Len(Reply(turn).entries) = Len(SavedReviews)
       /\ \A i \in DOMAIN SavedReviews :
             /\ Reply(turn).entries[i].review = ReviewBody(SavedReviews[i].message)
             /\ Reply(turn).entries[i].rating = RatingTyped(SavedReviews[i].message)


-----------------------------------------------------------------------------
(* SpecOwner: the owner and a customer both send the owner's commands, from *)
(* Twilio (form, with the whatsapp: prefix) and from a JSON client          *)

MaxOwnerTurns == 3

T_reviews_today == <<"r", "e", "v", "i", "e", "w", "s", " ", "t", "o", "d", "a", "y">>
T_Report == <<"R", "e", "p", "o", "r", "t">>

OwnerCommandTexts == { T_report, T_Report, T_reviews, T_reviews_today }

OwnerRequests ==
    { FormRequest(WHATSAPP_PREFIX \o sender, body) :
          sender \in { CUSTOMER_A, OWNER_NUMBER }, body \in OwnerCommandTexts }
    \cup { JsonRequest([from |-> sender, text |-> body], TRUE, TRUE) :
               sender \in { CUSTOMER_A, WHATSAPP_PREFIX \o OWNER_NUMBER },
               body \in { T_report, T_reviews } }

NextOwner ==
    \E request \in OwnerRequests :
        /\ Len(logs) < MaxOwnerTurns
        /\ Request(request, WORKING)

SpecOwner == Init /\ [][NextOwner]_vars

\* the replies that carry the report or the reviews
OwnerReplies == { "report", "reviews", "no_reviews_yet", "no_reviews_today" }

\* C13: a message that carries the report or the reviews is sent only in a
\* turn whose sender is OWNER_NUMBER, and to that sender; the message of any
\* other sender, the owner's command words included, gets the reply of the
\* customer dispatch.
C13_OwnerOnly ==
    [][ Handled
        => /\ \A i \in DOMAIN turn'.sent :
                 turn'.sent[i].body.kind \in OwnerReplies
                 => turn'.sender = OWNER_NUMBER /\ turn'.sent[i].to = OWNER_NUMBER
           /\ turn'.sender # OWNER_NUMBER
              => Reply(turn') =
                     handle_message(WORKING, clean_expired_states(user_state, now),
                                    turn'.sender, turn'.text).reply ]_vars

\* a customer has sent "reviews" when there were reviews to list, and it was
\* taken as feedback
C13_CustomerAsksForReviews ==
    /\ turn.sender = CUSTOMER_A
    /\ turn.text = T_reviews
    /\ Len(reviews) >= 2
    /\ Reply(turn).kind = "feedback_thanks"
    /\ reviews[Len(reviews)].customer = CUSTOMER_A


-----------------------------------------------------------------------------
(* SpecReport: a customer completes bookings, cake orders and reviews over  *)
(* two days, answering "4" to every question of a flow, and the owner asks  *)
(* for the report                                                           *)

MaxReportTurns == 7
MaxReportDays == 1

ReportRequests ==
    { FormRequest(WHATSAPP_PREFIX \o OWNER_NUMBER, T_report) }
    \cup { FormRequest(WHATSAPP_PREFIX \o CUSTOMER_A, body) :
               body \in IF CUSTOMER_A \in DOMAIN user_state
                        THEN { T_4 }
                        ELSE { T_4, T_cake, T_review_plain } }

NextReport ==
    \/ \E request \in ReportRequests :
           /\ Len(logs) < MaxReportTurns
           /\ Request(request, WORKING)
    \/ \E t \in Instants(MaxReportDays, 0, 0) : Advance(t)

SpecReport == Init /\ [][NextReport]_vars

\* the records of a file that were made on the day of the instant `at`
MadeOnDayOf(file, at) ==
    SelectSeq(file, LAMBDA r :
        \E d \in 0..(MaxReportDays + 1) :
            /\ d * SECONDS_PER_DAY <= at /\ at < (d + 1) * SECONDS_PER_DAY
            /\ d * SECONDS_PER_DAY <= r.timestamp
            /\ r.timestamp < (d + 1) * SECONDS_PER_DAY)

\* C14: the report the owner gets has, for bookings, cake orders and
\* reviews, the number of records in the file as its all-time count and the
\* number of records made on the day of the request as its count for today.
C14_Report ==
    (turn.sender = OWNER_NUMBER /\ turn.text = T_report)
    => /\ Reply(turn).kind = "report"
       /\ Reply(turn).total_bookings = Len(bookings)
       /\ Reply(turn).total_cakes = Len(cakes)
       /\ Reply(turn).total_reviews = Len(reviews)
       /\ Reply(turn).bookings_today = Len(MadeOnDayOf(bookings, turn.at))
       /\ Reply(turn).cakes_today = Len(MadeOnDayOf(cakes, turn.at))
       /\ Reply(turn).reviews_today = Len(MadeOnDayOf(reviews, turn.at))

\* a report on the second day: a cake order of the day before and a review
\* of the day
C14_ReportOnSecondDay ==
    /\ turn.sender = OWNER_NUMBER
    /\ turn.text = T_report
    /\ Reply(turn).kind = "report"
    /\ Reply(turn).total_bookings = 0
    /\ Reply(turn).total_cakes = 1 /\ Reply(turn).cakes_today = 0
    /\ Reply(turn).total_reviews = 1 /\ Reply(turn).reviews_today = 1


-----------------------------------------------------------------------------
(* SpecGreeting: a customer greets the bot, before and during a cake order  *)

MaxGreetingTurns == 3

T_hi == <<"h", "i">>
T_hello == <<"h", "e", "l", "l", "o">>
T_hey == <<"h", "e", "y">>
T_start == <<"s", "t", "a", "r", "t">>
T_menu == <<"m", "e", "n", "u">>
T_Hello == <<"H", "e", "l", "l", "o">>

GreetingTexts == { T_hi, T_hello, T_hey, T_start, T_menu, T_Hello, T_cake }

NextGreeting ==
    \E body \in GreetingTexts :
        /\ Len(logs) < MaxGreetingTurns
        /\ Webhook(WHATSAPP_PREFIX \o CUSTOMER_A, body)

SpecGreeting == Init /\ [][NextGreeting]_vars

\* the greetings of Scenario A
GreetingWords == { T_hi, T_hello, T_hey, T_start, T_menu }

\* C15: a greeting, in any letter case, from a sender with no state gets the
\* main menu with six options as the only message, and leaves the sender
\* without a state and the bookings, cake orders and reviews as they were.
C15_Greeting ==
    [][ ( /\ Handled
          /\ turn'.found = {}
          /\ Lower(turn'.text) \in GreetingWords )
        => /\ Len(turn'.sent) = 1
           /\ turn'.sent[1].to = turn'.sender
           /\ Reply(turn').kind = "main_menu"
           /\ Len(Reply(turn').options) = 6
           /\ turn'.sender \notin DOMAIN user_state'
           /\ bookings' = bookings /\ cakes' = cakes /\ reviews' = reviews ]_vars

\* the customer has been greeted with the main menu a second time
C15_GreetedTwice ==
    /\ Len(logs) = 2
    /\ logs[1].reply.kind = "main_menu"
    /\ turn.text = T_Hello
    /\ turn.found = {}
    /\ Reply(turn).kind = "main_menu"
    /\ user_state = <<>>


-----------------------------------------------------------------------------
(* SpecSend: a customer books, orders and writes reviews while Twilio, for   *)
(* any of the turns, takes no message for the customer, for the owner, or   *)
(* for both                                                                 *)

MaxSendTurns == 4

SendTexts == { T_4, T_cake, T_review_plain }

NextSend ==
    \E body \in SendTexts, down \in SUBSET { CUSTOMER_A, OWNER_NUMBER } :
        /\ Len(logs) < MaxSendTurns
        /\ Request(FormRequest(WHATSAPP_PREFIX \o CUSTOMER_A, body),
                   [WORKING EXCEPT !.unreachable = down])

SpecSend == Init /\ [][NextSend]_vars

\* a message that was handed to Twilio, whether it took it or not
Handed(message) == [to |-> message.to, body |-> message.body]

\* C16: a turn in which a send fails leaves the state dicts, the bookings,
\* the cake orders, the reviews and the log as the same request leaves them
\* when every send succeeds, hands the same messages to Twilio and answers
\* "success".
C16_SendFailure ==
    [][ ( /\ turn' # turn
          /\ \E i \in DOMAIN turn'.sent : ~turn'.sent[i].delivered )
        => LET delivered == webhook(turn'.request,
                                    [turn'.env EXCEPT !.unreachable = {}])
           IN  /\ user_state' = delivered.user_state
               /\ bookings' = delivered.bookings
               /\ cakes' = delivered.cakes
               /\ reviews' = delivered.reviews
               /\ logs' = delivered.logs
               /\ turn'.response = "success"
               /\ turn'.response = delivered.turn.response
               /\ [i \in DOMAIN turn'.sent |-> Handed(turn'.sent[i])]
                  = [i \in DOMAIN delivered.turn.sent |->
                        Handed(delivered.turn.sent[i])] ]_vars

\* the booking is saved and the state dict removed in a turn whose
\* confirmation and owner notice were both not sent
C16_BookedUnsent ==
    /\ Len(bookings) = 1
    /\ turn.response = "success"
    /\ Len(turn.sent) = 2
    /\ \A i \in DOMAIN turn.sent : ~turn.sent[i].delivered
    /\ \E st \in turn.found : st.flow = "booking" /\ st.step = 3
    /\ turn.sender \notin DOMAIN user_state


-----------------------------------------------------------------------------
(* SpecError: a customer books while, for any of the turns,                 *)
(* conversations.json may hold a JSON value that is not an array, so that   *)
(* log_interaction raises; a JSON client also posts an array                *)

MaxErrorTurns == 3

ErrorTexts == { T_book, T_4 }

ErrorRequests ==
    { FormRequest(WHATSAPP_PREFIX \o CUSTOMER_A, body) : body \in ErrorTexts }
    \cup { JsonRequest([value |-> << T_book >>], FALSE, TRUE) }

NextError ==
    \E request \in ErrorRequests, is_list \in BOOLEAN :
        /\ Len(logs) + Len(bookings) < MaxErrorTurns
        /\ Request(request, [WORKING EXCEPT !.log_is_list = is_list])

SpecError == Init /\ [][NextError]_vars

\* C17: after a request that was answered "internal server error", the
\* sender's state dict is the one that was stored before the request.
C17_ErrorKeepsSession ==
    turn.response = "internal server error"
    => StateOf(user_state, turn.sender) = turn.stored


-----------------------------------------------------------------------------
(* SpecInbound: requests with and without a sender and a text, from Twilio  *)
(* (form) and from a JSON client, while a customer orders a cake            *)

MaxInboundTurns == 3

T_blank == <<" ", " ">>

InboundRequests ==
    { FormRequest(frm, body) :
          frm \in { WHATSAPP_PREFIX \o CUSTOMER_A, WHATSAPP_PREFIX, T_blank, <<>> },
          body \in { T_cake, T_blank, <<>> } }
    \cup { JsonRequest([from |-> frm, text |-> body], TRUE, TRUE) :
               frm \in { CUSTOMER_A, T_blank }, body \in { T_cake, T_blank } }
    \cup { JsonRequest([from |-> CUSTOMER_A], TRUE, TRUE),
           JsonRequest(<<>>, TRUE, TRUE) }

NextInbound ==
    \E request \in InboundRequests :
        /\ Len(logs) < MaxInboundTurns
        /\ Request(request, WORKING)

SpecInbound == Init /\ [][NextInbound]_vars

\* C18: a request whose sender or text is empty once trimmed is answered
\* "no message to process" and changes no state dict, no file and no log, and
\* sends nothing.
C18_BlankIgnored ==
    [][ ( /\ turn' # turn
          /\ turn'.sender = <<>> \/ turn'.text = <<>> )
        => /\ turn'.response = "no message to process"
           /\ turn'.sent = <<>>
           /\ user_state' = user_state
           /\ logs' = logs
           /\ bookings' = bookings /\ cakes' = cakes /\ reviews' = reviews ]_vars


-----------------------------------------------------------------------------
(* SpecStorage: a customer books tables and writes reviews, and the owner   *)
(* asks for the report, while for any of the turns some of the reads and    *)
(* writes of the data directory fail                                        *)

MaxStorageTurns == 3

StorageRequests ==
    { FormRequest(WHATSAPP_PREFIX \o CUSTOMER_A, body) :
          body \in { T_4, T_review_plain } }
    \cup { FormRequest(WHATSAPP_PREFIX \o OWNER_NUMBER, T_report) }

\* the failures of a turn: none, every read, every write, every call
READS == { "avail_read", "append_read", "log_read", "report_read" }
WRITES == { "append_write", "log_write" }
Failures == { {}, READS, WRITES, CALLS }

NextStorage ==
    \E request \in StorageRequests, failing \in Failures :
        /\ Len(logs) + Len(bookings) + Len(reviews) < MaxStorageTurns
        /\ Request(request, [WORKING EXCEPT !.failing = failing])

SpecStorage == Init /\ [][NextStorage]_vars

\* C19: a turn in which reads or writes of the data directory fail is
\* answered "success", sends the sender a reply last, and leaves the state
\* dicts as the same request leaves them when every read and write works.
C19_StorageFailure ==
    [][ ( /\ turn' # turn
          /\ turn'.env.failing # {} )
        => LET working == webhook(turn'.request,
                                  [turn'.env EXCEPT !.failing = {}])
           IN  /\ turn'.response = "success"
               /\ working.turn.response = "success"
               /\ turn'.sent # <<>>
               /\ turn'.sent[Len(turn'.sent)].to = turn'.sender
               /\ user_state' = working.user_state ]_vars

\* the third answer of a booking when no read or write works: the booking is
\* confirmed and not saved, the owner is told, and the state dict is removed
C19_BookedUnsaved ==
    /\ turn.env.failing = CALLS
    /\ \E st \in turn.found : st.flow = "booking" /\ st.step = 3
    /\ bookings = <<>>
    /\ turn.response = "success"
    /\ Reply(turn).kind = "booking_confirmed"
    /\ Len(OwnerNotices(turn)) = 1
    /\ turn.sender \notin DOMAIN user_state


-----------------------------------------------------------------------------
(* SpecSweep: two senders start cake orders and write again, or send        *)
(* requests without a text, after pauses around the timeout                 *)

MaxSweepTurns == 3
MaxSweepTimeouts == 2
MaxSweepExtra == 1

SweepRequests ==
    { FormRequest(WHATSAPP_PREFIX \o sender, body) :
          sender \in { CUSTOMER_A, OWNER_NUMBER }, body \in { T_cake, T_blank } }

NextSweep ==
    \/ \E request \in SweepRequests :
           /\ Len(logs) < MaxSweepTurns
           /\ Request(request, WORKING)
    \/ \E t \in Instants(0, MaxSweepTimeouts, MaxSweepExtra) : Advance(t)

SpecSweep == Init /\ [][NextSweep]_vars

\* C20: in every request, with or without a text, a state dict that the
\* sweep's test calls expired is not the one found at the lookup, and no
\* sender keeps such a state dict: it is gone after the request, or replaced
\* by one made in this request.
C20_SweepFirst ==
    [][ turn' # turn
        => /\ \A s \in turn'.stored : is_expired(s, now) => turn'.found = {}
           /\ \A s \in turn'.stored : ~is_expired(s, now) => turn'.found = { s }
           /\ \A u \in DOMAIN user_state :
                 is_expired(user_state[u], now)
                 => \/ u \notin DOMAIN user_state'
                    \/ user_state'[u].timestamp = now ]_vars

\* a request without a text, 301 seconds after a cake order was started, has
\* removed the state dict of the order
C20_SweptByEmptyRequest ==
    /\ Len(logs) = 1
    /\ logs[1].reply.kind = "ask_flavour"
    /\ logs[1].timestamp = 0
    /\ turn.at = USER_STATE_TIMEOUT + 1
    /\ turn.response = "no message to process"
    /\ user_state = <<>>


-----------------------------------------------------------------------------
(* SpecRefresh: a customer in the booking flow answers the question for the *)
(* party size, wrongly and rightly, with pauses of the timeout at most      *)

MaxRefreshTurns == 3
MaxRefreshTimeouts == 2

T_5_people == <<"5", " ", "p", "e", "o", "p", "l", "e">>

RefreshTexts == { T_book, T_0, T_5_people }

NextRefresh ==
    \/ \E body \in RefreshTexts :
           /\ Len(logs) < MaxRefreshTurns
           /\ Webhook(WHATSAPP_PREFIX \o CUSTOMER_A, body)
    \/ \E t \in Instants(0, MaxRefreshTimeouts, 0) : Advance(t)

SpecRefresh == Init /\ [][NextRefresh]_vars

\* C21: a sender who had a state dict and whose message before this one was
\* at most 300 seconds earlier is found with that state dict.
C21_SessionRefreshed ==
    ( /\ Len(logs) >= 2
      /\ logs[Len(logs)].sender = turn.sender
      /\ logs[Len(logs) - 1].sender = turn.sender
      /\ turn.at - logs[Len(logs) - 1].timestamp <= USER_STATE_TIMEOUT
      /\ turn.stored # {} )
    => turn.found = turn.stored


-----------------------------------------------------------------------------
(* Append-only records, in SpecReport *)

\* `after` is `before`, or `before` with one record more at its end
KeptOrExtended(before, after) ==
    /\ Len(after) \in { Len(before), Len(before) + 1 }
    /\ SubSeq(after, 1, Len(before)) = before

\* C22: every request leaves the bookings, the cake orders and the reviews
\* as they were or with one record more at the end, and adds a record to at
\* most one of the three.
C22_AppendOnly ==
    [][ /\ KeptOrExtended(bookings, bookings')
        /\ KeptOrExtended(cakes, cakes')
        /\ KeptOrExtended(reviews, reviews')
        /\ Len(bookings') + Len(cakes') + Len(reviews')
           <= Len(bookings) + Len(cakes) + Len(reviews) + 1 ]_vars

\* the request that completed a cake order, two reviews of two days being
\* on file
C22_CakeAfterReviews ==
    /\ Len(reviews) = 2
    /\ Len(cakes) = 1
    /\ \E st \in turn.found : st.flow = "cake" /\ st.step = 4
    /\ reviews[2].timestamp > reviews[1].timestamp


-----------------------------------------------------------------------------
(* SpecLog: the owner asks for the report and a customer greets, orders a   *)
(* cake, writes something the classifier does not know, and sends requests  *)
(* without a text                                                           *)

MaxLogTurns == 4

LogRequests ==
    { FormRequest(WHATSAPP_PREFIX \o OWNER_NUMBER, T_report) }
    \cup { FormRequest(WHATSAPP_PREFIX \o CUSTOMER_A, body) :
               body \in { T_cake, T_hi, T_nOPE, T_blank } }

NextLog ==
    \E request \in LogRequests :
        /\ Len(logs) < MaxLogTurns
        /\ Request(request, WORKING)

SpecLog == Init /\ [][NextLog]_vars

\* C23: a request with a sender and a text that is answered "success" adds
\* one entry at the end of the log, with the sender, the text as it was sent
\* and the reply of the request, and a request without a text adds none.
C23_Logged ==
    [][ /\ ( /\ turn'.sender # <<>>
             /\ turn'.text # <<>>
             /\ turn'.response = "success" )
           => logs' = Append(logs, [sender |-> turn'.sender,
                                    message |-> turn'.text,
                                    reply |-> Reply(turn'),
                                    timestamp |-> now])
        /\ turn'.text = <<>> => logs' = logs ]_vars

\* the log after a greeting, the start of a cake order, the owner's report
\* and a flavour the customer typed
C23_FourPaths ==
    /\ Len(logs) = 4
    /\ logs[1].reply.kind = "main_menu"
    /\ logs[2].reply.kind = "ask_flavour"
    /\ logs[3].reply.kind = "report"
    /\ logs[3].sender = OWNER_NUMBER
    /\ logs[4].message = T_nOPE
    /\ \E st \in turn.found : st.flow = "cake" /\ st.step = 1


-----------------------------------------------------------------------------
(* SpecSession: a customer starts bookings and cake orders, by keyword and  *)
(* by a bare number, answers rightly and wrongly, and pauses                *)

MaxSessionTurns == 4
MaxSessionTimeouts == 1
MaxSessionExtra == 0

SessionTexts == { T_book, T_cake, T_4, T_0 }

NextSession ==
    \/ \E body \in SessionTexts :
           /\ Len(logs) < MaxSessionTurns
           /\ Webhook(WHATSAPP_PREFIX \o CUSTOMER_A, body)
    \/ \E t \in Instants(0, MaxSessionTimeouts, MaxSessionExtra) : Advance(t)

SpecSession == Init /\ [][NextSession]_vars

\* the steps of the two flows
FLOW_STEPS ==
    { <<"booking", 1>>, <<"booking", 2>>, <<"booking", 3>>,
      <<"cake", 1>>, <<"cake", 2>>, <<"cake", 3>>, <<"cake", 4>> }

\* the keys a state dict must have at its step
KeysAt(flow, step) ==
    { "flow", "step", "timestamp" }
    \cup (IF flow = "booking" /\ step >= 2 THEN { "people" } ELSE {})
    \cup (IF flow = "booking" /\ step >= 3 THEN { "date" } ELSE {})
    \cup (IF flow = "cake" /\ step >= 2 THEN { "flavour" } ELSE {})
    \cup (IF flow = "cake" /\ step >= 3 THEN { "custom_message" } ELSE {})
    \cup (IF flow = "cake" /\ step >= 4 THEN { "date" } ELSE {})

WellFormed(s) ==
    /\ { "flow", "step" } \subseteq DOMAIN s
    /\ << s.flow, s.step >> \in FLOW_STEPS
    /\ KeysAt(s.flow, s.step) \subseteq DOMAIN s
    /\ "people" \in DOMAIN s => s.people > 0

\* C24: every state dict is at a step of its flow and has the keys of that
\* step, with a positive party size, and a state dict that a request found
\* and left in place is in the same flow, at the same step or the next.
C24_WellFormedSessions ==
    [][ /\ \A u \in DOMAIN user_state' : WellFormed(user_state'[u])
        /\ \A s \in turn'.found :
              turn'.sender \in DOMAIN user_state'
              => /\ user_state'[turn'.sender].flow = s.flow
                 /\ user_state'[turn'.sender].step \in { s.step, s.step + 1 } ]_vars

\* a cake order that the last message moved from step 3 to its last step
C24_CakeAtStepFour ==
    /\ CUSTOMER_A \in DOMAIN user_state
    /\ user_state[CUSTOMER_A].flow = "cake"
    /\ user_state[CUSTOMER_A].step = 4
    /\ DOMAIN user_state[CUSTOMER_A] = KeysAt("cake", 4)
    /\ \E st \in turn.found : st.step = 3


-----------------------------------------------------------------------------
(* No premature eviction, in SpecSweep *)

\* the state dict was written at most the timeout ago
InTime(s, current_time) ==
    /\ "timestamp" \in DOMAIN s
    /\ s.timestamp <= current_time
    /\ current_time - s.timestamp <= USER_STATE_TIMEOUT

\* C25: a request leaves in place every other sender's state dict that was
\* written at most 300 seconds before it, and finds at the lookup the state
\* dict of its own sender if that was written at most 300 seconds before it.
C25_NoPrematureEviction ==
    [][ turn' # turn
        => /\ \A u \in DOMAIN user_state :
                 (u # turn'.sender /\ InTime(user_state[u], now))
                 => (u \in DOMAIN user_state' /\ user_state'[u] = user_state[u])
           /\ \A s \in turn'.stored : InTime(s, now) => turn'.found = { s } ]_vars

\* the answer to the flavour question comes exactly 300 seconds after the
\* question and is taken as the flavour
C25_AnsweredAtTimeout ==
    /\ Len(logs) = 2
    /\ logs[1].reply.kind = "ask_flavour"
    /\ logs[2].reply.kind = "ask_customization"
    /\ logs[2].sender = logs[1].sender
    /\ logs[2].timestamp - logs[1].timestamp = USER_STATE_TIMEOUT
    /\ \E s \in turn.found : s.step = 1 /\ turn.at - s.timestamp = USER_STATE_TIMEOUT


-----------------------------------------------------------------------------
(* SpecThreads: requests at booking step 3 in two serving threads.  The     *)
(* handler takes no lock, so a thread can be suspended between any two of   *)
(* its reads and writes of user_state and bookings.json; each action below  *)
(* is the stretch of the handler from one of them to the next.              *)

MaxThreads == 2
MaxThreadTurns == 4
MaxThreadMessages == 6

THREADS == 1..MaxThreads

\* webhook, lines 440-607: the sweep, the lookup of the state dict and
\* `state["time"] = message_text`, for a sender at booking step 3
step3_begin(th, sender_number, message_text) ==
    LET swept == clean_expired_states(user_state, now)
    IN  /\ th \notin DOMAIN threads
        /\ sender_number \in DOMAIN swept
        /\ swept[sender_number].flow = "booking"
        /\ swept[sender_number].step = 3
        /\ user_state' = Put(swept, sender_number,
                             Put(swept[sender_number], "time", message_text))
        /\ threads' = Put(threads, th,
                          [pc |-> "check", sender |-> sender_number,
                           text |-> message_text,
                           stored |-> StateOf(user_state, sender_number),
                           state |-> Put(swept[sender_number], "time", message_text),
                           is_avail |-> FALSE, available_seats |-> 0,
                           loaded |-> <<>>])
        /\ UNCHANGED <<now, bookings, cakes, reviews, logs, turn>>

\* line 610: check_table_availability reads bookings.json
step3_check(th) ==
    LET t == threads[th]
        avail == check_table_availability(WORKING, t.state.date, t.state.time,
                                          t.state.people)
    IN  /\ t.pc = "check"
        /\ threads' = Put(threads, th,
                          [t EXCEPT !.pc = IF avail[1] THEN "load" ELSE "finish",
                                    !.is_avail = avail[1],
                                    !.available_seats = avail[2]])
        /\ UNCHANGED <<now, user_state, bookings, cakes, reviews, logs, turn>>

\* lines 619-627: the booking, load_data and the append to the loaded list
step3_load(th) ==
    LET t == threads[th]
        booking == [customer |-> t.sender, people |-> t.state.people,
                    date |-> t.state.date, time |-> t.state.time,
                    timestamp |-> now]
    IN  /\ t.pc = "load"
        /\ threads' = Put(threads, th,
                          [t EXCEPT !.pc = "save",
                                    !.loaded = Append(load_data(WORKING, "append_read",
                                                                bookings), booking)])
        /\ UNCHANGED <<now, user_state, bookings, cakes, reviews, logs, turn>>

\* line 628: save_data writes the thread's list to bookings.json
step3_save(th) ==
    LET t == threads[th]
    IN  /\ t.pc = "save"
        /\ bookings' = save_data(WORKING, "append_write", bookings, t.loaded)
        /\ threads' = Put(threads, th, [t EXCEPT !.pc = "finish"])
        /\ UNCHANGED <<now, user_state, cakes, reviews, logs, turn>>

\* lines 611-616 and 630-654: the reply, the notice for the owner, the pop of
\* the state dict, the reply sent and logged, the response
step3_finish(th) ==
    LET t == threads[th]
        reply == IF t.is_avail
                 THEN [kind |-> "booking_confirmed", people |-> t.state.people,
                       date |-> t.state.date, time |-> t.state.time]
                 ELSE [kind |-> "no_seats", people |-> t.state.people,
                       time |-> t.state.time, date |-> t.state.date,
                       available_seats |-> t.available_seats]
        owner == IF t.is_avail
                 THEN owner_notice([kind |-> "new_booking", customer |-> t.sender,
                                    people |-> t.state.people,
                                    date |-> t.state.date, time |-> t.state.time])
                 ELSE <<>>
        sent == [i \in DOMAIN owner |->
                    send_twilio_message(WORKING, OWNER_NUMBER, owner[i])]
                \o << send_twilio_message(WORKING, t.sender, reply) >>
    IN  /\ t.pc = "finish"
        /\ user_state' = Pop(user_state, t.sender)
        /\ logs' = log_interaction(WORKING, t.sender, t.text, reply)
        /\ turn' = [request |-> FormRequest(WHATSAPP_PREFIX \o t.sender, t.text),
                    env |-> WORKING]
                   @@ Turn(t.sender, t.text, t.stored, { t.state }, sent, "success")
        /\ threads' = Pop(threads, th)
        /\ UNCHANGED <<now, bookings, cakes, reviews>>

ThreadSenders == { CUSTOMER_A, CUSTOMER_B }
ThreadTexts == { T_20, T_today }

NextThreads ==
    \/ \E sender \in ThreadSenders, body \in ThreadTexts :
           /\ threads = <<>>
           /\ Len(logs) < MaxThreadTurns
           /\ Webhook(WHATSAPP_PREFIX \o sender, body)
    \/ \E th \in THREADS, sender \in ThreadSenders :
           /\ Len(logs) + Cardinality(DOMAIN threads) < MaxThreadMessages
           /\ step3_begin(th, sender, T_7PM)
    \/ \E th \in DOMAIN threads : step3_check(th)
    \/ \E th \in DOMAIN threads : step3_load(th)
    \/ \E th \in DOMAIN threads : step3_save(th)
    \/ \E th \in DOMAIN threads : step3_finish(th)

SpecThreads == Init /\ [][NextThreads]_vars

\* C26: with requests at booking step 3 in two threads, in every step the
\* party sizes of the bookings of every slot add up to TOTAL_SEATS at most
\* and every record of bookings.json stays where it was.
C26_CapacityUnderInterleaving ==
    [][ /\ \A i \in DOMAIN bookings' :
              SeatsTaken(bookings', SlotKey(bookings'[i].date, bookings'[i].time))
                  <= TOTAL_SEATS
        /\ Len(bookings') >= Len(bookings)
        /\ SubSeq(bookings', 1, Len(bookings)) = bookings ]_vars


-----------------------------------------------------------------------------
(* SpecNotice: a customer books, is turned away, is asked again, orders a   *)
(* cake and writes a review; Twilio may take no message for the owner       *)

MaxNoticeTurns == 5

NoticeTexts == { T_book, T_20, T_51, T_today, T_7PM, T_cake, T_review_5 }

NextNotice ==
    \E body \in NoticeTexts, down \in { {}, { OWNER_NUMBER } } :
        /\ Len(logs) < MaxNoticeTurns
        /\ down # {} => body = T_7PM
        /\ Request(FormRequest(WHATSAPP_PREFIX \o CUSTOMER_A, body),
                   [WORKING EXCEPT !.unreachable = down])

SpecNotice == Init /\ [][NextNotice]_vars

\* the replies of a booking turned away, of a question asked again and of the
\* steps before the last
UnfinishedReplies ==
    { "no_seats", "ask_people", "ask_people_again", "ask_date", "ask_time",
      "ask_flavour", "ask_customization", "ask_pickup_date", "ask_pickup_time",
      "number_prompt" }

-----------------------------------------------------------------------------
(* SpecPreempt: a customer in a flow sends a greeting, a numbered command,  *)
(* a menu category, a review and the keyword of the other flow              *)

MaxPreemptTurns == 3
MaxPreemptTimeouts == 1
MaxPreemptExtra == 1

T_coffee == <<"c", "o", "f", "f", "e", "e">>

PreemptTexts == { T_book, T_cake, T_hi, T_2, T_coffee, T_review_plain }

NextPreempt ==
    \/ \E body \in PreemptTexts :
           /\ Len(logs) < MaxPreemptTurns
           /\ Webhook(WHATSAPP_PREFIX \o CUSTOMER_A, body)
    \/ \E t \in Instants(0, MaxPreemptTimeouts, MaxPreemptExtra) : Advance(t)

SpecPreempt == Init /\ [][NextPreempt]_vars

\* the replies of a step of a flow
StepReplies(flow, step) ==
    IF flow = "booking"
    THEN (IF step = 1 THEN { "ask_date", "ask_people_again" }
          ELSE IF step = 2 THEN { "ask_time" }
          ELSE { "booking_confirmed", "no_seats" })
    ELSE (IF step = 1 THEN { "ask_customization" }
          ELSE IF step = 2 THEN { "ask_pickup_date" }
          ELSE IF step = 3 THEN { "ask_pickup_time" }
          ELSE { "cake_confirmed" })

\* C28: a message of a customer whose state dict is found at the lookup gets
\* a reply of the step the state dict is at; the state dict is then gone or
\* is the same one, with what it had collected, at the same step or the next;
\* no review is added, and no record of the other flow.
C28_FlowPreempts ==
    [][ \A s \in turn'.found :
          (Handled /\ turn'.sender # OWNER_NUMBER)
          => /\ Reply(turn').kind \in StepReplies(s.flow, s.step)
             /\ reviews' = reviews
             /\ s.flow = "booking" => cakes' = cakes
             /\ s.flow = "cake" => bookings' = bookings
             /\ turn'.sender \in DOMAIN user_state'
                   => LET next == user_state'[turn'.sender]
                      IN  /\ next.flow = s.flow
                          /\ next.step \in { s.step, s.step + 1 }
                          /\ \A k \in DOMAIN s \ { "step", "timestamp" } :
                                next[k] = s[k] ]_vars

\* a cake order whose flavour question was answered with "book" and whose
\* customization with a review, 300 seconds later
C28_CakeFlowTookAll ==
    /\ Len(logs) = 3
    /\ CUSTOMER_A \in DOMAIN user_state
    /\ user_state[CUSTOMER_A].flow = "cake"
    /\ user_state[CUSTOMER_A].step = 3
    /\ logs[2].message = T_book
    /\ logs[3].message = T_review_plain
    /\ logs[3].timestamp = logs[2].timestamp + USER_STATE_TIMEOUT
    /\ reviews = <<>>


-----------------------------------------------------------------------------
(* SpecIsolation: two customers book tables by turns, with a pause of more  *)
(* than the timeout                                                         *)

MaxIsolationTurns == 4
MaxIsolationPauses == 1

IsolationSenders == { CUSTOMER_A, CUSTOMER_B }
IsolationTexts == { T_20, T_today, T_7PM }

NextIsolation ==
    \/ \E sender \in IsolationSenders, body \in IsolationTexts :
           /\ Len(logs) < MaxIsolationTurns
           /\ Webhook(WHATSAPP_PREFIX \o sender, body)
    \/ /\ now < MaxIsolationPauses * (USER_STATE_TIMEOUT + 1)
       /\ Tick(USER_STATE_TIMEOUT + 1)

SpecIsolation == Init /\ [][NextIsolation]_vars

\* C29: a request gives no state dict to a sender other than its own, and
\* leaves the state dict of every other sender as it was or, if that was
\* written more than 300 seconds before the request, removes it.
C29_SenderIsolation ==
    [][ turn' # turn
        => /\ \A u \in DOMAIN user_state' :
                 u # turn'.sender
                 => (u \in DOMAIN user_state /\ user_state'[u] = user_state[u])
           /\ \A u \in DOMAIN user_state \ DOMAIN user_state' :
                 u # turn'.sender
                 => now - user_state[u].timestamp > USER_STATE_TIMEOUT ]_vars

\* one customer's booking is made and the state dict gone, while the other
\* customer's booking is at step 2 as before
C29_OtherStillAtStepTwo ==
    /\ Len(bookings) = 1
    /\ turn.sender = CUSTOMER_A
    /\ Reply(turn).kind = "booking_confirmed"
    /\ DOMAIN user_state = { CUSTOMER_B }
    /\ user_state[CUSTOMER_B].step = 2
    /\ logs[Len(logs) - 1].sender = CUSTOMER_B

====
